---------------------------- MODULE Spec2Model ----------------------------
(***************************************************************************)
(* A model of the interactive Mandelbrot viewer: the Scene1 viewport       *)
(* controller (handleZoom, handlePan, handleReset, the iterations slider), *)
(* the MandelbrotCanvas component (debounced render requests, the          *)
(* renderId protocol with the worker, the pointer handlers) and the        *)
(* worker's frame renderer (renderMandelbrot, calculateMandelbrot,         *)
(* iterationToColor), the utils' evaluator, and Scene2's pixel and complex *)
(* coordinates.                                                            *)
(*                                                                         *)
(* Numbers.  In Scene1, the canvas and the evaluators a JavaScript number  *)
(* is modelled by the exact rational it denotes, written                   *)
(* (n/d) * 2^e2 * 5^e5 with n, d coprime to each other and to 10.  Keeping *)
(* the powers of 2 and 5 apart lets the model hold zoom = 1e12 and         *)
(* scale = 4/(zoom*800) without large integers.  That arithmetic is the    *)
(* arithmetic of the reals: IEEE-754 rounding is not modelled there.       *)
(* Scene2's coordinate functions are computed in IEEE-754 doubles, each    *)
(* operation rounded to nearest, ties to even.  A canvas of 1200 x 800     *)
(* pixels is beyond exhaustive checking, so the frame renderer is run on   *)
(* canvases of a few pixels (SpecRender), and in the protocol a computed   *)
(* frame stands as the request's fields.                                   *)
(***************************************************************************)
EXTENDS Integers, Sequences, FiniteSets, Bags, TLC

----------------------------------------------------------------------------
(* Integer helpers *)

Abs(i) == IF i < 0 THEN -i ELSE i

Min(a, b) == IF a <= b THEN a ELSE b

Max(a, b) == IF a >= b THEN a ELSE b

RECURSIVE Gcd(_, _)
Gcd(a, b) == IF b = 0 THEN a ELSE Gcd(b, a % b)

RECURSIVE Pow(_, _)
Pow(b, k) == IF k <= 0 THEN 1 ELSE b * Pow(b, k - 1)

\* how many times p divides i (i # 0)
RECURSIVE Val(_, _)
Val(p, i) == IF i % p = 0 THEN 1 + Val(p, i \div p) ELSE 0

\* number of decimal digits of i >= 1
RECURSIVE Digits(_)
Digits(i) == IF i < 10 THEN 1 ELSE 1 + Digits(i \div 10)

----------------------------------------------------------------------------
(* Numbers: (n/d) * 2^e2 * 5^e5 in canonical form *)

Zero == [n |-> 0, d |-> 1, e2 |-> 0, e5 |-> 0]

\* the canonical form of (n/d) * 2^e2 * 5^e5, d > 0
Norm(n, d, e2, e5) ==
    IF n = 0 THEN Zero
    ELSE LET g  == Gcd(Abs(n), d)
             n1 == n \div g
             d1 == d \div g
             a2 == Val(2, Abs(n1))
             a5 == Val(5, Abs(n1))
             b2 == Val(2, d1)
             b5 == Val(5, d1)
         IN  [n  |-> (IF n1 < 0 THEN -1 ELSE 1) *
                     (Abs(n1) \div (Pow(2, a2) * Pow(5, a5))),
              d  |-> d1 \div (Pow(2, b2) * Pow(5, b5)),
              e2 |-> e2 + a2 - b2,
              e5 |-> e5 + a5 - b5]

\* the number n/d
Rat(n, d) == Norm(n, d, 0, 0)

\* the integer i as a number
Num(i) == Norm(i, 1, 0, 0)

\* the number 10^k, k any integer (1e12 is Pow10(12), 1e-10 is Pow10(-10))
Pow10(k) == [n |-> 1, d |-> 1, e2 |-> k, e5 |-> k]

Neg(x) == [x EXCEPT !.n = -x.n]

AbsN(x) == [x EXCEPT !.n = Abs(x.n)]

Mul(x, y) ==
    IF x.n = 0 \/ y.n = 0 THEN Zero
    ELSE LET g1 == Gcd(Abs(x.n), y.d)
             g2 == Gcd(Abs(y.n), x.d)
         IN  [n  |-> (x.n \div g1) * (y.n \div g2),
              d  |-> (x.d \div g2) * (y.d \div g1),
              e2 |-> x.e2 + y.e2,
              e5 |-> x.e5 + y.e5]

\* 1/x, x # 0
Inv(x) ==
    [n  |-> IF x.n < 0 THEN -x.d ELSE x.d,
     d  |-> Abs(x.n),
     e2 |-> -x.e2,
     e5 |-> -x.e5]

Div(x, y) == Mul(x, Inv(y))

Add(x, y) ==
    IF x.n = 0 THEN y
    ELSE IF y.n = 0 THEN x
    ELSE LET e2 == Min(x.e2, y.e2)
             e5 == Min(x.e5, y.e5)
             a  == x.n * Pow(2, x.e2 - e2) * Pow(5, x.e5 - e5)
             b  == y.n * Pow(2, y.e2 - e2) * Pow(5, y.e5 - e5)
             g  == Gcd(x.d, y.d)
         IN  Norm(a * (y.d \div g) + b * (x.d \div g), (x.d \div g) * y.d,
                  e2, e5)

Sub(x, y) == Add(x, Neg(y))

\* 10^6 * log10(2^e2 * 5^e5), to within (|e2| + |e5|) * 0.005
Log10Scaled(x) == x.e2 * 301030 + x.e5 * 698970

\* bounds of 10^6 * log10 |x|, x # 0: an integer i >= 2 of k digits lies in
\* [10^(k-1), 10^k)
LogLo(x) ==
    Log10Scaled(x)
      + (IF Abs(x.n) = 1 THEN 0 ELSE (Digits(Abs(x.n)) - 1) * 1000000)
      - (IF x.d = 1 THEN 0 ELSE Digits(x.d) * 1000000) - 10

LogHi(x) ==
    Log10Scaled(x)
      + (IF Abs(x.n) = 1 THEN 0 ELSE Digits(Abs(x.n)) * 1000000)
      - (IF x.d = 1 THEN 0 ELSE (Digits(x.d) - 1) * 1000000) + 10

\* p1/q1 < p2/q2 for positive integers, by comparing the integer parts and
\* then, the other way round, the inverses of the fractional parts
RECURSIVE LtFrac(_, _, _, _)
LtFrac(p1, q1, p2, q2) ==
    IF p1 \div q1 # p2 \div q2 THEN p1 \div q1 < p2 \div q2
    ELSE IF p2 % q2 = 0 THEN FALSE
    ELSE IF p1 % q1 = 0 THEN TRUE
    ELSE LtFrac(q2, p2 % q2, q1, p1 % q1)

\* numerator and denominator of |x| * 2^s2 * 5^s5 as integers
Numer(x, s2, s5) ==
    Abs(x.n) * Pow(2, Max(x.e2 + s2, 0)) * Pow(5, Max(x.e5 + s5, 0))

Denom(x, s2, s5) ==
    x.d * Pow(2, Max(-(x.e2 + s2), 0)) * Pow(5, Max(-(x.e5 + s5), 0))

\* x < y for positive x, y: by their magnitudes where these decide it, and
\* exactly otherwise, as fractions brought to exponents around zero
LtPos(x, y) ==
    IF LogHi(x) < LogLo(y) THEN TRUE
    ELSE IF LogLo(x) > LogHi(y) THEN FALSE
    ELSE LET s2 == -((x.e2 + y.e2) \div 2)
             s5 == -((x.e5 + y.e5) \div 2)
         IN  LtFrac(Numer(x, s2, s5), Denom(x, s2, s5),
                    Numer(y, s2, s5), Denom(y, s2, s5))

\* x < y
Lt(x, y) ==
    IF x = y THEN FALSE
    ELSE IF x.n <= 0 /\ y.n >= 0 THEN TRUE
    ELSE IF x.n >= 0 /\ y.n <= 0 THEN FALSE
    ELSE IF x.n > 0 THEN LtPos(x, y)
    ELSE LtPos(Neg(y), Neg(x))

Le(x, y) == x = y \/ Lt(x, y)

\* Math.min, Math.max
MinN(x, y) == IF Lt(y, x) THEN y ELSE x

MaxN(x, y) == IF Lt(x, y) THEN y ELSE x

----------------------------------------------------------------------------
(* Scene1: constants *)

CANVAS_WIDTH == 1200

CANVAS_HEIGHT == 800

DEFAULT_MAX_ITERATIONS == 200

DEFAULT_CENTER_X == Rat(-1, 2)

DEFAULT_CENTER_Y == Zero

DEFAULT_ZOOM == Num(1)

MAX_ZOOM == Pow10(12)

\* the lower zoom limit 0.5 of handleZoom
MIN_ZOOM == Rat(1, 2)

----------------------------------------------------------------------------
(* Bounds and input sets *)

\* user events (wheel, pointer, slider, reset) per behaviour of Spec
MaxEvents == 2

\* user events per behaviour of SpecView
MaxViewEvents == 4

\* user events per behaviour of SpecRequests
MaxRequestEvents == 2

\* user events per behaviour of SpecZoomLevels
MaxZoomEvents == 1

\* zoom levels of SpecZoomLevels: from MaxNotchesOut wheel notches out of the
\* default zoom to MaxNotchesIn notches in
MaxNotchesOut == 4

MaxNotchesIn == 124

\* iteration budgets of SpecEvaluate: 0..MaxEvaluatorIterations, and
\* 0..MaxOrbitIterations for the points whose orbit is a cycle of integers
MaxEvaluatorIterations == 3

MaxOrbitIterations == 23

\* canvases of SpecRender: 1..MaxWidth by 1..MaxHeight pixels
MaxWidth == 2

MaxHeight == 3

\* iteration budgets of SpecRender: 0..MaxIterations
MaxIterations == 3

\* pointer positions, in client coordinates; the canvas's bounding rectangle
\* is taken to start at the client origin, so that px = clientX, py = clientY
Pointers == {[x |-> 600, y |-> 400], [x |-> 900, y |-> 100]}

\* mouse buttons: 0 is the primary button
Buttons == {0, 2}

\* the sign of a wheel event's deltaY
WheelDeltas == {-1, 1}

\* digit keys: Scene1 and a scene without a canvas (BlankScene)
SceneKeys == {1, 9}

\* values picked on the max-iterations slider (min 50, max 2000, step 50)
SliderValues == {50, 2000}

----------------------------------------------------------------------------
(* State *)

VARIABLES
    \* App
    currentScene,      \* the scene shown: 1 is Scene1
    \* Scene1
    stateRef,          \* stateRef.current: [centerX, centerY, zoom]
    centerX,           \* React state
    centerY,
    zoom,
    maxIterations,
    resetKey,
    \* the mounted MandelbrotCanvas instance
    renderIdRef,       \* renderIdRef.current
    isRendering,
    isDraggingRef,     \* isDraggingRef.current
    lastMousePosRef,   \* lastMousePosRef.current: Null or [x, y]
    timer,             \* the timer the debounce effect set last, while it is
                       \* pending: Null or the props its render closure
                       \* captured
    timers,            \* the timers of the canvas that setTimeout has armed
                       \* and that have neither expired nor been cleared: a
                       \* bag of the props their render closures captured
    listeners,         \* the 'message' listeners registered on the worker, each
                       \* the currentRenderId its handleMessage captured
    canvasPixels,      \* what putImageData drew last: Null or a drawn frame
    \* the worker of the mounted canvas
    inbox,             \* requests posted to the worker, not yet handled
    outbox,            \* results posted by the worker, not yet dispatched
    \* a worker rendering on its own (SpecRender)
    message,           \* the message of its onmessage: Null or a request
    data,              \* the buffer renderMandelbrot has filled: Null or
                       \* [pixels: a function from pixel index to pixel]
    \* a function called on its own (SpecEvaluate, SpecCoordinates)
    call,              \* the arguments of the call: Null or a record
    returned,          \* what the call has returned so far: Null or a record
    \* components on their own, each in a specification of its own
    variantCanvas,     \* the MandelbrotCanvas that keeps isDragging as
                       \* state: Null or its fields
    scene2,            \* Scene2 and its canvas: Null or their fields
    scene6,            \* Scene6: Null or its fields
    scene5,            \* Scene5: Null or its fields
    scene3,            \* Scene3: Null or its fields
    \* history (not program state)
    last,              \* the last user event with the viewport before it,
                       \* and the event before that one
    eventBudget        \* how many user events the behaviour may hold

sceneVars == <<currentScene, stateRef, centerX, centerY, zoom, maxIterations,
               resetKey>>

canvasVars == <<renderIdRef, isRendering, isDraggingRef, lastMousePosRef,
                timer, timers, listeners, canvasPixels>>

workerVars == <<inbox, outbox>>

otherVars == <<variantCanvas, scene2, scene6, scene5, scene3>>

renderVars == <<message, data, call, returned, otherVars>>

histVars == <<last, eventBudget>>

vars == <<sceneVars, canvasVars, workerVars, renderVars, histVars>>

Null == [null |-> TRUE]

\* the props of the canvas that its render closure reads
Props(cx, cy, z, mi) ==
    [width |-> CANVAS_WIDTH, height |-> CANVAS_HEIGHT,
     centerX |-> cx, centerY |-> cy, zoom |-> z, maxIterations |-> mi]

\* the viewport object Scene1 builds on each render
viewport == [centerX |-> centerX, centerY |-> centerY, zoom |-> zoom,
             width |-> CANVAS_WIDTH, height |-> CANVAS_HEIGHT]

\* what an event record keeps of the event before it
Before(e) == [kind |-> e.kind, x |-> e.x, y |-> e.y, arg |-> e.arg,
              view |-> e.view]

NoEvent == [seq |-> 0, kind |-> "none", x |-> 0, y |-> 0, arg |-> 0,
            onPan |-> FALSE, onZoom |-> FALSE, view |-> Null, busy |-> FALSE,
            drag |-> Null,
            prev |-> [kind |-> "none", x |-> 0, y |-> 0, arg |-> 0,
                      view |-> Null]]

nEvents == last.seq

\* the record of a user event: its handler, the pointer position, its
\* argument (button, sign of deltaY, slider value, digit key), the callbacks
\* the handler invoked, stateRef.current before it, whether a timer was
\* pending or a request or result in flight before it, the primary press
\* that started the drag in progress after it (where the pointer was and
\* stateRef.current then; Null when no drag is in progress or the wheel
\* was turned since the press), and the event before it
Event(kind, x, y, arg, onPan, onZoom) ==
    [seq |-> nEvents + 1, kind |-> kind, x |-> x, y |-> y, arg |-> arg,
     onPan |-> onPan, onZoom |-> onZoom, view |-> stateRef,
     busy |-> (timers # EmptyBag \/ inbox # <<>> \/ outbox # <<>>),
     drag |-> IF kind = "mouseDown" /\ arg = 0
              THEN [x |-> x, y |-> y, view |-> stateRef]
              ELSE IF kind \in {"mouseDown", "mouseMove", "slider"}
              THEN last.drag
              ELSE Null,
     prev |-> Before(last)]

Record(e) == last' = e /\ UNCHANGED <<eventBudget, renderVars>>

----------------------------------------------------------------------------
(* Scene1: the viewport controller *)

\* Scene1's state as one value
scene == [stateRef |-> stateRef, centerX |-> centerX, centerY |-> centerY,
          zoom |-> zoom, maxIterations |-> maxIterations,
          resetKey |-> resetKey]

\* scale = 4 / (z * Math.min(CANVAS_WIDTH, CANVAS_HEIGHT))
Scale(z, width, height) == Div(Num(4), Mul(z, Num(Min(width, height))))

\* utils: pixelToComplex(px, py, viewport)
pixelToComplex(px, py, v) ==
    LET scale == Scale(v.zoom, v.width, v.height)
    IN  [real |-> Add(v.centerX, Mul(Sub(Num(px), Rat(v.width, 2)), scale)),
         imag |-> Add(v.centerY, Mul(Sub(Num(py), Rat(v.height, 2)), scale))]

\* a variant of ClampZoom: the upper limit MAX_ZOOM is not applied
ClampZoom_noUpperLimit(z, zoomFactor) == MaxN(MIN_ZOOM, Mul(z, zoomFactor))

\* newZoom = Math.max(0.5, Math.min(z * zoomFactor, MAX_ZOOM))
ClampZoom(z, zoomFactor) == MaxN(MIN_ZOOM, MinN(Mul(z, zoomFactor), MAX_ZOOM))

\* a variant of AdaptiveIterations: Math.floor for Math.round
AdaptiveIterations_floors(newZoom) ==
    LET targetIterations ==
            Min(200 * 1000000 + Log10Scaled(newZoom) * 100, 2000 * 1000000)
    IN  (targetIterations \div (50 * 1000000)) * 50

\* a variant of AdaptiveIterations: the term of the zoom is subtracted
AdaptiveIterations_subtractsLog(newZoom) ==
    LET targetIterations ==
            Min(200 * 1000000 - Log10Scaled(newZoom) * 100, 2000 * 1000000)
    IN  ((targetIterations + 25 * 1000000) \div (50 * 1000000)) * 50

\* Math.round(Math.min(200 + Math.log10(newZoom) * 100, 2000) / 50) * 50,
\* in units of 10^-6; newZoom is a product of powers of 2 and 5
AdaptiveIterations(newZoom) ==
    LET targetIterations ==
            Min(200 * 1000000 + Log10Scaled(newZoom) * 100, 2000 * 1000000)
    IN  ((targetIterations + 25 * 1000000) \div (50 * 1000000)) * 50

\* a variant of handleZoom: the new centre is computed with the requested
\* zoomFactor, not with the factor actually applied after clamping
handleZoom_ignoresClamp(s, pixelX, pixelY, zoomFactor) ==
    LET cx == s.stateRef.centerX
        cy == s.stateRef.centerY
        z  == s.stateRef.zoom
        newZoom == ClampZoom(z, zoomFactor)
        scale == Scale(z, CANVAS_WIDTH, CANVAS_HEIGHT)
        targetX == Add(cx, Mul(Sub(Num(pixelX), Rat(CANVAS_WIDTH, 2)), scale))
        targetY == Add(cy, Mul(Sub(Num(pixelY), Rat(CANVAS_HEIGHT, 2)), scale))
        newCenterX == Add(targetX, Div(Sub(cx, targetX), zoomFactor))
        newCenterY == Add(targetY, Div(Sub(cy, targetY), zoomFactor))
    IN  IF newZoom = z THEN s
        ELSE [s EXCEPT
                !.stateRef = [centerX |-> newCenterX, centerY |-> newCenterY,
                              zoom |-> newZoom],
                !.centerX = newCenterX,
                !.centerY = newCenterY,
                !.zoom = newZoom,
                !.maxIterations = AdaptiveIterations(newZoom)]

\* a variant of handleZoom: no early return when the clamped zoom equals the
\* current zoom
handleZoom_noEarlyReturn(s, pixelX, pixelY, zoomFactor) ==
    LET cx == s.stateRef.centerX
        cy == s.stateRef.centerY
        z  == s.stateRef.zoom
        newZoom == ClampZoom(z, zoomFactor)
        actualZoomFactor == Div(newZoom, z)
        scale == Scale(z, CANVAS_WIDTH, CANVAS_HEIGHT)
        targetX == Add(cx, Mul(Sub(Num(pixelX), Rat(CANVAS_WIDTH, 2)), scale))
        targetY == Add(cy, Mul(Sub(Num(pixelY), Rat(CANVAS_HEIGHT, 2)), scale))
        newCenterX == Add(targetX, Div(Sub(cx, targetX), actualZoomFactor))
        newCenterY == Add(targetY, Div(Sub(cy, targetY), actualZoomFactor))
    IN  [s EXCEPT
           !.stateRef = [centerX |-> newCenterX, centerY |-> newCenterY,
                         zoom |-> newZoom],
           !.centerX = newCenterX,
           !.centerY = newCenterY,
           !.zoom = newZoom,
           !.maxIterations = AdaptiveIterations(newZoom)]

\* handleZoom(pixelX, pixelY, zoomFactor) applied to Scene1's state s
handleZoom(s, pixelX, pixelY, zoomFactor) ==
    LET cx == s.stateRef.centerX
        cy == s.stateRef.centerY
        z  == s.stateRef.zoom
        newZoom == ClampZoom(z, zoomFactor)
        actualZoomFactor == Div(newZoom, z)
        scale == Scale(z, CANVAS_WIDTH, CANVAS_HEIGHT)
        targetX == Add(cx, Mul(Sub(Num(pixelX), Rat(CANVAS_WIDTH, 2)), scale))
        targetY == Add(cy, Mul(Sub(Num(pixelY), Rat(CANVAS_HEIGHT, 2)), scale))
        offsetX == Sub(cx, targetX)
        offsetY == Sub(cy, targetY)
        newCenterX == Add(targetX, Div(offsetX, actualZoomFactor))
        newCenterY == Add(targetY, Div(offsetY, actualZoomFactor))
    IN  IF newZoom = z THEN s
        ELSE [s EXCEPT
                !.stateRef = [centerX |-> newCenterX, centerY |-> newCenterY,
                              zoom |-> newZoom],
                !.centerX = newCenterX,
                !.centerY = newCenterY,
                !.zoom = newZoom,
                !.maxIterations = AdaptiveIterations(newZoom)]

\* a variant of handlePan: it reads the centre and the zoom of the last
\* render (React state) instead of stateRef.current
handlePan_readsState(s, deltaPixelX, deltaPixelY) ==
    LET scale == Scale(s.zoom, CANVAS_WIDTH, CANVAS_HEIGHT)
        newCenterX == Sub(s.centerX, Mul(Num(deltaPixelX), scale))
        newCenterY == Sub(s.centerY, Mul(Num(deltaPixelY), scale))
    IN  [s EXCEPT
            !.stateRef = [centerX |-> newCenterX, centerY |-> newCenterY,
                          zoom |-> s.zoom],
            !.centerX = newCenterX,
            !.centerY = newCenterY]

\* a variant of handlePan: the delta is added to the centre
handlePan_addsDelta(s, deltaPixelX, deltaPixelY) ==
    LET cx == s.stateRef.centerX
        cy == s.stateRef.centerY
        z  == s.stateRef.zoom
        scale == Scale(z, CANVAS_WIDTH, CANVAS_HEIGHT)
        newCenterX == Add(cx, Mul(Num(deltaPixelX), scale))
        newCenterY == Add(cy, Mul(Num(deltaPixelY), scale))
    IN  [s EXCEPT
           !.stateRef = [centerX |-> newCenterX, centerY |-> newCenterY,
                         zoom |-> z],
           !.centerX = newCenterX,
           !.centerY = newCenterY]

\* handlePan(deltaPixelX, deltaPixelY) applied to Scene1's state s
handlePan(s, deltaPixelX, deltaPixelY) ==
    LET cx == s.stateRef.centerX
        cy == s.stateRef.centerY
        z  == s.stateRef.zoom
        scale == Scale(z, CANVAS_WIDTH, CANVAS_HEIGHT)
        deltaCx == Mul(Num(deltaPixelX), scale)
        deltaCy == Mul(Num(deltaPixelY), scale)
        newCenterX == Sub(cx, deltaCx)
        newCenterY == Sub(cy, deltaCy)
    IN  [s EXCEPT
           !.stateRef = [centerX |-> newCenterX, centerY |-> newCenterY,
                         zoom |-> z],
           !.centerX = newCenterX,
           !.centerY = newCenterY]

\* a variant of handleReset: stateRef is left as it is
handleReset_keepsRef(s) ==
    [stateRef |-> s.stateRef,
     centerX |-> DEFAULT_CENTER_X,
     centerY |-> DEFAULT_CENTER_Y,
     zoom |-> DEFAULT_ZOOM,
     maxIterations |-> DEFAULT_MAX_ITERATIONS,
     resetKey |-> s.resetKey + 1]

\* handleReset() applied to Scene1's state s
handleReset(s) ==
    [stateRef |-> [centerX |-> DEFAULT_CENTER_X, centerY |-> DEFAULT_CENTER_Y,
                   zoom |-> DEFAULT_ZOOM],
     centerX |-> DEFAULT_CENTER_X,
     centerY |-> DEFAULT_CENTER_Y,
     zoom |-> DEFAULT_ZOOM,
     maxIterations |-> DEFAULT_MAX_ITERATIONS,
     resetKey |-> s.resetKey + 1]

\* the slider's onChange: setMaxIterations(Number(e.target.value))
sliderChange(s, value) == [s EXCEPT !.maxIterations = value]

----------------------------------------------------------------------------
(* MandelbrotCanvas: handlers as functions of the refs they read *)

\* a variant of wheelZoomFactor: the zoom-out factor 0.75 is not the inverse
\* of the zoom-in factor
wheelZoomFactor_notInverse(deltaY) ==
    IF deltaY < 0 THEN Rat(5, 4) ELSE Rat(3, 4)

\* handleWheel: zoomFactor = e.deltaY < 0 ? 1.25 : 1 / 1.25
wheelZoomFactor(deltaY) ==
    IF deltaY < 0 THEN Rat(5, 4) ELSE Div(Num(1), Rat(5, 4))

\* a variant of handleMouseDown: any button starts a drag
handleMouseDown_anyButton(dragging, lastPos, x, y, button) ==
    [isDraggingRef |-> TRUE, lastMousePosRef |-> [x |-> x, y |-> y]]

\* handleMouseDown: the refs after a press of `button` at (x, y)
handleMouseDown(dragging, lastPos, x, y, button) ==
    IF button = 0
    THEN [isDraggingRef |-> TRUE, lastMousePosRef |-> [x |-> x, y |-> y]]
    ELSE [isDraggingRef |-> dragging, lastMousePosRef |-> lastPos]

\* handleMouseUp: the refs after a release
handleMouseUp(dragging, lastPos) ==
    [isDraggingRef |-> FALSE, lastMousePosRef |-> Null]

\* handleMouseLeave: the refs after the pointer left the canvas
handleMouseLeave(dragging, lastPos) ==
    IF dragging
    THEN [isDraggingRef |-> FALSE, lastMousePosRef |-> Null]
    ELSE [isDraggingRef |-> dragging, lastMousePosRef |-> lastPos]

\* a variant of handleMouseMove: onPan is invoked for every move of a drag,
\* a move by (0, 0) included
handleMouseMove_noZeroGuard(dragging, lastPos, x, y) ==
    IF dragging
    THEN [onPan |-> lastPos # Null,
          deltaX |-> IF lastPos # Null THEN x - lastPos.x ELSE 0,
          deltaY |-> IF lastPos # Null THEN y - lastPos.y ELSE 0,
          lastMousePosRef |-> [x |-> x, y |-> y]]
    ELSE [onPan |-> FALSE, deltaX |-> 0, deltaY |-> 0,
          lastMousePosRef |-> lastPos]

\* a variant of handleMouseMove: lastMousePosRef.current stays where the
\* press put it
handleMouseMove_keepsLastPos(dragging, lastPos, x, y) ==
    IF dragging
    THEN [onPan |-> lastPos # Null /\ (x - lastPos.x # 0 \/ y - lastPos.y # 0),
          deltaX |-> IF lastPos # Null THEN x - lastPos.x ELSE 0,
          deltaY |-> IF lastPos # Null THEN y - lastPos.y ELSE 0,
          lastMousePosRef |-> lastPos]
    ELSE [onPan |-> FALSE, deltaX |-> 0, deltaY |-> 0,
          lastMousePosRef |-> lastPos]

\* handleMouseMove without onMouseMovePoint (Scene1): whether onPan is
\* invoked, with which deltas, and lastMousePosRef.current afterwards
handleMouseMove(dragging, lastPos, x, y) ==
    IF dragging
    THEN [onPan |-> lastPos # Null /\ (x - lastPos.x # 0 \/ y - lastPos.y # 0),
          deltaX |-> IF lastPos # Null THEN x - lastPos.x ELSE 0,
          deltaY |-> IF lastPos # Null THEN y - lastPos.y ELSE 0,
          lastMousePosRef |-> [x |-> x, y |-> y]]
    ELSE [onPan |-> FALSE, deltaX |-> 0, deltaY |-> 0,
          lastMousePosRef |-> lastPos]

\* handleMessage of the render whose id is currentRenderId: whether it
\* draws the message it is given (it returns at once when its render is
\* not the latest)
handleMessage(currentRenderId, renderId) == currentRenderId = renderId

\* the message render() posts, from the props its closure captured; rid and
\* key are history: the render id of the request and the key of the canvas
\* instance that issued it (the message does not carry them)
RequestMessage(props, rid) ==
    [width |-> props.width, height |-> props.height,
     centerX |-> props.centerX, centerY |-> props.centerY,
     zoom |-> props.zoom, maxIterations |-> props.maxIterations,
     rid |-> rid, key |-> resetKey]

\* the worker's answer to request m: the buffer renderMandelbrot fills is a
\* function of the request's fields, and stands here as those fields
ResultMessage(m) ==
    [imageData |-> [width |-> m.width, height |-> m.height,
                    centerX |-> m.centerX, centerY |-> m.centerY,
                    zoom |-> m.zoom, maxIterations |-> m.maxIterations],
     rid |-> m.rid, key |-> m.key]

----------------------------------------------------------------------------
(* The worker: evaluator, colours, frame renderer.  maxIter is the       *)
(* parameter maxIterations of the source.                                *)

\* inCardioid(x, y)
inCardioid(x, y) ==
    LET xq == Sub(x, Rat(1, 4))
        q  == Add(Mul(xq, xq), Mul(y, y))
    IN  Le(Mul(q, Add(q, xq)), Mul(Rat(1, 4), Mul(y, y)))

\* inPeriod2Bulb(x, y)
inPeriod2Bulb(x, y) ==
    LET x1 == Add(x, Num(1))
    IN  Le(Add(Mul(x1, x1), Mul(y, y)), Rat(1, 16))

\* What calculateMandelbrot returns.  The bounded outcome is the number
\* maxIterations.  The escaped outcome is the number
\*     iteration + 1 - log2(ln(sqrt(mag2))),
\* kept as the iteration and the squared magnitude mag2 > 4 it is computed
\* from.
Bounded(maxIter) ==
    [escaped |-> FALSE, iteration |-> maxIter, mag2 |-> Zero]

\* a variant of Escaped: the iteration is counted from one
Escaped_countsFromOne(iteration, mag2) ==
    [escaped |-> TRUE, iteration |-> iteration + 1, mag2 |-> mag2]

Escaped(iteration, mag2) ==
    [escaped |-> TRUE, iteration |-> iteration, mag2 |-> mag2]

\* the while loop of calculateMandelbrot, from the state of its variables
RECURSIVE mandelbrotLoop(_, _, _, _, _, _, _, _, _)
mandelbrotLoop(cReal, cImag, maxIter, zReal, zImag, iteration, oldReal, oldImag, period) ==
    IF ~(iteration < maxIter) THEN Bounded(maxIter)
    ELSE LET zRealSquared == Mul(zReal, zReal)
             zImagSquared == Mul(zImag, zImag)
             newZReal == Add(Sub(zRealSquared, zImagSquared), cReal)
             newZImag == Add(Mul(Mul(Num(2), zReal), zImag), cImag)
             restart == period + 1 > 20
         IN  IF Lt(Num(4), Add(zRealSquared, zImagSquared))
             THEN Escaped(iteration, Add(zRealSquared, zImagSquared))
             ELSE IF newZReal = oldReal /\ newZImag = oldImag
             THEN Bounded(maxIter)
             ELSE mandelbrotLoop(cReal, cImag, maxIter,
                                 newZReal, newZImag, iteration + 1,
                                 IF restart THEN newZReal ELSE oldReal,
                                 IF restart THEN newZImag ELSE oldImag,
                                 IF restart THEN 0 ELSE period + 1)

\* a variant of calculateMandelbrot: the early bailout returns 0
calculateMandelbrot_bailoutReturnsZero(cReal, cImag, maxIter) ==
    IF inCardioid(cReal, cImag) \/ inPeriod2Bulb(cReal, cImag)
    THEN Bounded(0)
    ELSE mandelbrotLoop(cReal, cImag, maxIter, Zero, Zero, 0,
                        Zero, Zero, 0)

\* calculateMandelbrot(cReal, cImag, maxIter) of the worker
calculateMandelbrot(cReal, cImag, maxIter) ==
    IF inCardioid(cReal, cImag) \/ inPeriod2Bulb(cReal, cImag)
    THEN Bounded(maxIter)
    ELSE mandelbrotLoop(cReal, cImag, maxIter, Zero, Zero, 0,
                        Zero, Zero, 0)

\* a variant of the loop below: the escape test comes after the step
RECURSIVE utilsMandelbrotLoop_testsAfterStep(_, _, _, _, _, _)
utilsMandelbrotLoop_testsAfterStep(cReal, cImag, maxIter, zReal, zImag, iteration) ==
    IF ~(iteration < maxIter)
    THEN [zReal |-> zReal, zImag |-> zImag, iteration |-> iteration]
    ELSE LET newZReal == Add(Sub(Mul(zReal, zReal), Mul(zImag, zImag)), cReal)
             newZImag == Add(Mul(Mul(Num(2), zReal), zImag), cImag)
         IN  IF Lt(Num(4), Add(Mul(newZReal, newZReal),
                               Mul(newZImag, newZImag)))
             THEN [zReal |-> newZReal, zImag |-> newZImag,
                   iteration |-> iteration]
             ELSE utilsMandelbrotLoop_testsAfterStep(cReal, cImag, maxIter,
                                      newZReal, newZImag, iteration + 1)

\* the while loop of the utils calculateMandelbrot, from the state of its
\* variables to their state when the loop is left
RECURSIVE utilsMandelbrotLoop(_, _, _, _, _, _)
utilsMandelbrotLoop(cReal, cImag, maxIter, zReal, zImag, iteration) ==
    IF ~(iteration < maxIter)
    THEN [zReal |-> zReal, zImag |-> zImag, iteration |-> iteration]
    ELSE LET zRealSquared == Mul(zReal, zReal)
             zImagSquared == Mul(zImag, zImag)
             newZReal == Add(Sub(zRealSquared, zImagSquared), cReal)
             newZImag == Add(Mul(Mul(Num(2), zReal), zImag), cImag)
         IN  IF Lt(Num(4), Add(zRealSquared, zImagSquared))
             THEN [zReal |-> zReal, zImag |-> zImag, iteration |-> iteration]
             ELSE utilsMandelbrotLoop(cReal, cImag, maxIter,
                                      newZReal, newZImag, iteration + 1)

\* calculateMandelbrot(cReal, cImag, maxIter) of the utils: the smooth value
\* of an escaped point is computed after the loop, from z as the loop left it
utilsCalculateMandelbrot(cReal, cImag, maxIter) ==
    LET end == utilsMandelbrotLoop(cReal, cImag, maxIter, Zero, Zero, 0)
    IN  IF end.iteration < maxIter
        THEN Escaped(end.iteration, Add(Mul(end.zReal, end.zReal),
                                        Mul(end.zImag, end.zImag)))
        ELSE Bounded(end.iteration)

\* e^2 = 7.3890560989..., cut after six decimals; no squared magnitude of
\* the model lies between the two
E_SQUARED == Norm(7389056, 1, -6, -6)

\* the test iteration >= maxIter of iterationToColor on an outcome.
\* For an escaped outcome iteration <= maxIter - 1 and mag2 > 4, so
\* that log2(ln(sqrt(mag2))) > -0.53 and
\*     iteration + 1 - log2(ln(sqrt(mag2))) >= maxIter
\* exactly when iteration = maxIter - 1 and ln(sqrt(mag2)) <= 1.
AtLeastMaxIterations(outcome, maxIter) ==
    IF outcome.escaped
    THEN outcome.iteration + 1 >= maxIter /\ Le(outcome.mag2, E_SQUARED)
    ELSE outcome.iteration >= maxIter

Black == [r |-> 0, g |-> 0, b |-> 0]

\* iterationToColor(iteration, maxIter) of the worker.  The palette
\* colour of an escaped outcome is a function of iteration / maxIter
\* and stands as the numbers it is computed from.  It is never black: its
\* largest channel is floor((lightness + c/2) * 255) with lightness >= 0.15.
iterationToColor(outcome, maxIter) ==
    IF AtLeastMaxIterations(outcome, maxIter) THEN Black
    ELSE [iteration |-> outcome.iteration, mag2 |-> outcome.mag2,
          maxIterations |-> maxIter]

\* the four bytes of a pixel
Pixel(color) == [color |-> color, alpha |-> 255]

\* pixel p of the buffer after n more writes of colour color; writes is
\* history: how often the four bytes were set
SetPixel(p, color, n) ==
    [color |-> Pixel(color).color, alpha |-> Pixel(color).alpha,
     writes |-> p.writes + n]

\* new Uint8ClampedArray(width * height * 4): every byte 0
blankData(width, height) ==
    [i \in 0..(width * height - 1) |->
        [color |-> Black, alpha |-> 0, writes |-> 0]]

\* the body of renderMandelbrot's inner loop up to "Set pixel": the colour
\* of pixel (px, py)
pixelColor(px, py, m) ==
    LET scale == Scale(m.zoom, m.width, m.height)
        centerPixelY == Rat(m.height, 2)
        real == Add(m.centerX, Mul(Sub(Num(px), Rat(m.width, 2)), scale))
        imag == Add(m.centerY, Mul(Sub(Num(py), centerPixelY), scale))
    IN  iterationToColor(calculateMandelbrot(real, imag, m.maxIterations),
                         m.maxIterations)

\* a variant of renderRows: the mirror write is not guarded by
\* py !== Math.floor(centerPixelY)
RECURSIVE renderRows_mirrorsEveryRow(_, _, _, _, _)
renderRows_mirrorsEveryRow(buf, py, halfHeight, useSymmetry, m) ==
    IF ~(py < halfHeight) THEN buf
    ELSE LET mirrorY == m.height - 1 - py
             mirrored == /\ useSymmetry
                         /\ mirrorY >= 0 /\ mirrorY < m.height
             written ==
                 [i \in DOMAIN buf |->
                    LET n == (IF i \div m.width = py THEN 1 ELSE 0)
                             + (IF mirrored /\ i \div m.width = mirrorY
                                THEN 1 ELSE 0)
                    IN  IF n > 0
                        THEN SetPixel(buf[i], pixelColor(i % m.width, py, m), n)
                        ELSE buf[i]]
         IN  renderRows_mirrorsEveryRow(written, py + 1, halfHeight,
                                        useSymmetry, m)

\* the rows py .. halfHeight - 1 of renderMandelbrot's outer loop, written
\* into buffer buf; Math.floor(centerPixelY) is height \div 2.  A pixel of
\* row py is set once, a pixel of the mirror row once more.
RECURSIVE renderRows(_, _, _, _, _)
renderRows(buf, py, halfHeight, useSymmetry, m) ==
    IF ~(py < halfHeight) THEN buf
    ELSE LET mirrorY == m.height - 1 - py
             mirrored == /\ useSymmetry /\ py # m.height \div 2
                         /\ mirrorY >= 0 /\ mirrorY < m.height
             written ==
                 [i \in DOMAIN buf |->
                    LET n == (IF i \div m.width = py THEN 1 ELSE 0)
                             + (IF mirrored /\ i \div m.width = mirrorY
                                THEN 1 ELSE 0)
                    IN  IF n > 0
                        THEN SetPixel(buf[i], pixelColor(i % m.width, py, m), n)
                        ELSE buf[i]]
         IN  renderRows(written, py + 1, halfHeight, useSymmetry, m)

\* renderMandelbrot(data, width, height, centerX, centerY, zoom,
\* maxIterations) of the worker on a zero-filled buffer, m the message
renderMandelbrot(m) ==
    LET useSymmetry == Lt(AbsN(m.centerY), Pow10(-10))
        halfHeight == IF useSymmetry THEN (m.height + 1) \div 2 ELSE m.height
    IN  renderRows(blankData(m.width, m.height), 0, halfHeight, useSymmetry, m)

\* renderMandelbrot as it runs when useSymmetry is false: every row is
\* computed, each pixel from its own point
renderFullScan(m) ==
    renderRows(blankData(m.width, m.height), 0, m.height, FALSE, m)

----------------------------------------------------------------------------
(* Steps *)

SetScene(s) ==
    /\ stateRef' = s.stateRef
    /\ centerX' = s.centerX
    /\ centerY' = s.centerY
    /\ zoom' = s.zoom
    /\ maxIterations' = s.maxIterations
    /\ resetKey' = s.resetKey
    /\ UNCHANGED currentScene

\* clearTimeout(handle) on the timers of the canvas: the timer is no longer
\* pending; a handle whose timer has expired (Null) clears nothing
clearTimeout_clearsNothing(pending, handle) == pending

clearTimeout(pending, handle) ==
    IF handle = Null THEN pending ELSE pending (-) SetToBag({handle})

\* worker.terminate() on the messages queued to and from the worker: they
\* are discarded
terminate_keepsQueue(queue) == queue

terminate(queue) == <<>>

\* the state whose change makes React render Scene1 again
ReactState(s) == <<s.centerX, s.centerY, s.zoom, s.maxIterations, s.resetKey>>

\* The debounce effect of the canvas.  When Scene1 renders again the canvas
\* gets a new viewport object, render is a new callback and the effect runs
\* again: its cleanup clears the timer it set and a new timer is set.  When no
\* state changed React renders nothing and the timers stay as they are.
DebounceEffect(s) ==
    IF ReactState(s) # ReactState(scene)
    THEN /\ timer' = Props(s.centerX, s.centerY, s.zoom, s.maxIterations)
         /\ timers' = clearTimeout(timers, timer) (+) SetToBag({timer'})
    ELSE UNCHANGED <<timer, timers>>

\* handleWheel -> onZoom = Scene1's handleZoom
Wheel(x, y, deltaY) ==
    /\ currentScene = 1
    /\ nEvents < eventBudget
    /\ LET s == handleZoom(scene, x, y, wheelZoomFactor(deltaY))
       IN  SetScene(s) /\ DebounceEffect(s)
    /\ UNCHANGED <<renderIdRef, isRendering, isDraggingRef, lastMousePosRef,
                   listeners, canvasPixels, workerVars>>
    /\ Record(Event("wheel", x, y, deltaY, FALSE, TRUE))

MouseDown(x, y, button) ==
    /\ currentScene = 1
    /\ nEvents < eventBudget
    /\ LET r == handleMouseDown(isDraggingRef, lastMousePosRef, x, y, button)
       IN  /\ isDraggingRef' = r.isDraggingRef
           /\ lastMousePosRef' = r.lastMousePosRef
    /\ UNCHANGED <<sceneVars, renderIdRef, isRendering, timer, timers,
                   listeners, canvasPixels, workerVars>>
    /\ Record(Event("mouseDown", x, y, button, FALSE, FALSE))

MouseUp ==
    /\ currentScene = 1
    /\ nEvents < eventBudget
    /\ LET r == handleMouseUp(isDraggingRef, lastMousePosRef)
       IN  /\ isDraggingRef' = r.isDraggingRef
           /\ lastMousePosRef' = r.lastMousePosRef
    /\ UNCHANGED <<sceneVars, renderIdRef, isRendering, timer, timers,
                   listeners, canvasPixels, workerVars>>
    /\ Record(Event("mouseUp", 0, 0, 0, FALSE, FALSE))

MouseLeave ==
    /\ currentScene = 1
    /\ nEvents < eventBudget
    /\ LET r == handleMouseLeave(isDraggingRef, lastMousePosRef)
       IN  /\ isDraggingRef' = r.isDraggingRef
           /\ lastMousePosRef' = r.lastMousePosRef
    /\ UNCHANGED <<sceneVars, renderIdRef, isRendering, timer, timers,
                   listeners, canvasPixels, workerVars>>
    /\ Record(Event("mouseLeave", 0, 0, 0, FALSE, FALSE))

\* handleMouseMove -> onPan = Scene1's handlePan
MouseMove(x, y) ==
    /\ currentScene = 1
    /\ nEvents < eventBudget
    /\ LET r == handleMouseMove(isDraggingRef, lastMousePosRef, x, y)
           s == IF r.onPan THEN handlePan(scene, r.deltaX, r.deltaY) ELSE scene
       IN  /\ lastMousePosRef' = r.lastMousePosRef
           /\ SetScene(s) /\ DebounceEffect(s)
           /\ Record(Event("mouseMove", x, y, 0, r.onPan, FALSE))
    /\ UNCHANGED <<renderIdRef, isRendering, isDraggingRef, listeners,
                   canvasPixels, workerVars>>

Slider(value) ==
    /\ currentScene = 1
    /\ nEvents < eventBudget
    /\ LET s == sliderChange(scene, value)
       IN  SetScene(s) /\ DebounceEffect(s)
    /\ UNCHANGED <<renderIdRef, isRendering, isDraggingRef, lastMousePosRef,
                   listeners, canvasPixels, workerVars>>
    /\ Record(Event("slider", 0, 0, value, FALSE, FALSE))

\* The Reset View button.  resetKey changes, so the canvas is unmounted (its
\* worker terminated, its timer cleared) and a new canvas is mounted: fresh
\* refs and state, a new worker, the debounce timer set on mount.
Reset ==
    /\ currentScene = 1
    /\ nEvents < eventBudget
    /\ LET s == handleReset(scene)
       IN  /\ SetScene(s)
           /\ timer' = Props(s.centerX, s.centerY, s.zoom, s.maxIterations)
           /\ timers' = clearTimeout(timers, timer) (+) SetToBag({timer'})
    /\ renderIdRef' = 0
    /\ isRendering' = FALSE
    /\ isDraggingRef' = FALSE
    /\ lastMousePosRef' = Null
    /\ listeners' = {}
    /\ canvasPixels' = Null
    /\ inbox' = terminate(inbox)
    /\ outbox' = terminate(outbox)
    /\ Record(Event("reset", 0, 0, 0, FALSE, FALSE))

\* A digit key: App's handleKeyDown sets currentScene.  Leaving scene 1
\* unmounts Scene1 and its canvas (the worker terminated, the timer cleared);
\* entering it mounts them with their initial state and arms the timer of
\* the mount.  While Scene1 is not mounted its variables hold the values the
\* next mount starts from.
KeyDown(key) ==
    /\ nEvents < eventBudget
    /\ currentScene' = key
    /\ IF key = currentScene
       THEN UNCHANGED <<stateRef, centerX, centerY, zoom, maxIterations,
                        resetKey, canvasVars, workerVars>>
       ELSE /\ stateRef' = [centerX |-> DEFAULT_CENTER_X,
                            centerY |-> DEFAULT_CENTER_Y,
                            zoom |-> DEFAULT_ZOOM]
            /\ centerX' = DEFAULT_CENTER_X
            /\ centerY' = DEFAULT_CENTER_Y
            /\ zoom' = DEFAULT_ZOOM
            /\ maxIterations' = DEFAULT_MAX_ITERATIONS
            /\ resetKey' = 0
            /\ renderIdRef' = 0
            /\ isRendering' = FALSE
            /\ isDraggingRef' = FALSE
            /\ lastMousePosRef' = Null
            /\ listeners' = {}
            /\ canvasPixels' = Null
            /\ inbox' = terminate(inbox)
            /\ outbox' = terminate(outbox)
            /\ timer' = IF key = 1
                        THEN Props(DEFAULT_CENTER_X, DEFAULT_CENTER_Y,
                                   DEFAULT_ZOOM, DEFAULT_MAX_ITERATIONS)
                        ELSE Null
            /\ timers' = IF key = 1
                         THEN clearTimeout(timers, timer) (+) SetToBag({timer'})
                         ELSE clearTimeout(timers, timer)
    /\ Record(Event("keyDown", 0, 0, key, FALSE, FALSE))

\* postMessage: the message is queued behind the ones already in flight
postMessage_preempts(queue, m) == <<m>>

postMessage(queue, m) == Append(queue, m)

\* ++renderIdRef.current
nextRenderId_notIncremented(current) == current

nextRenderId(current) == current + 1

\* A pending debounce timer expires: the render() of its closure.
TimerFires ==
    /\ \E t \in BagToSet(timers) :
         /\ LET currentRenderId == nextRenderId(renderIdRef)
            IN  /\ renderIdRef' = currentRenderId
                /\ isRendering' = TRUE
                /\ listeners' = listeners \cup {currentRenderId}
                /\ inbox' = postMessage(inbox, RequestMessage(t, currentRenderId))
         /\ timers' = timers (-) SetToBag({t})
         /\ timer' = IF t = timer THEN Null ELSE timer
    /\ UNCHANGED <<sceneVars, isDraggingRef, lastMousePosRef, canvasPixels,
                   outbox, renderVars, histVars>>

\* The worker's onmessage: one request rendered to completion, its result
\* posted.
WorkerOnMessage ==
    /\ inbox # <<>>
    /\ outbox' = postMessage(outbox, ResultMessage(Head(inbox)))
    /\ inbox' = Tail(inbox)
    /\ UNCHANGED <<sceneVars, canvasVars, renderVars, histVars>>

\* A result message is dispatched to every listener registered on the
\* worker.  At most one of them, the one of the latest render, draws it and
\* removes itself; the others return and stay registered.
DispatchMessage ==
    /\ outbox # <<>>
    /\ LET e == Head(outbox)
           drawing == {id \in listeners : handleMessage(id, renderIdRef)}
       IN  IF drawing # {}
           THEN /\ canvasPixels' = [imageData |-> e.imageData, rid |-> e.rid,
                                    key |-> e.key, drawnBy |-> renderIdRef]
                /\ isRendering' = FALSE
                /\ listeners' = listeners \ drawing
           ELSE UNCHANGED <<canvasPixels, isRendering, listeners>>
    /\ outbox' = Tail(outbox)
    /\ UNCHANGED <<sceneVars, renderIdRef, isDraggingRef, lastMousePosRef,
                   timer, timers, inbox, renderVars, histVars>>

\* The onmessage of a worker rendering on its own: the buffer is created,
\* renderMandelbrot fills it.
WorkerRender ==
    /\ message # Null
    /\ data = Null
    /\ data' = [pixels |-> renderMandelbrot(message)]
    /\ UNCHANGED <<message, call, returned, otherVars, sceneVars, canvasVars, workerVars,
                   histVars>>

----------------------------------------------------------------------------
(* The specification *)

\* Scene1 and its canvas as constructed: the default view, the debounce
\* timer of the mount pending
Constructed ==
    /\ stateRef = [centerX |-> DEFAULT_CENTER_X, centerY |-> DEFAULT_CENTER_Y,
                   zoom |-> DEFAULT_ZOOM]
    /\ centerX = DEFAULT_CENTER_X
    /\ centerY = DEFAULT_CENTER_Y
    /\ zoom = DEFAULT_ZOOM
    /\ maxIterations = DEFAULT_MAX_ITERATIONS
    /\ resetKey = 0
    /\ currentScene = 1
    /\ renderIdRef = 0
    /\ isRendering = FALSE
    /\ isDraggingRef = FALSE
    /\ lastMousePosRef = Null
    /\ timer = Props(DEFAULT_CENTER_X, DEFAULT_CENTER_Y, DEFAULT_ZOOM,
                     DEFAULT_MAX_ITERATIONS)
    /\ timers = SetToBag({timer})
    /\ listeners = {}
    /\ canvasPixels = Null
    /\ inbox = <<>>
    /\ outbox = <<>>
    /\ last = NoEvent

\* the components modelled on their own are not mounted
OthersUnmounted ==
    /\ variantCanvas = Null
    /\ scene2 = Null
    /\ scene6 = Null
    /\ scene5 = Null
    /\ scene3 = Null

Init ==
    /\ Constructed
    /\ OthersUnmounted
    /\ message = Null
    /\ data = Null
    /\ call = Null
    /\ returned = Null
    /\ eventBudget = MaxEvents

Next ==
    \/ \E p \in Pointers, deltaY \in WheelDeltas : Wheel(p.x, p.y, deltaY)
    \/ \E p \in Pointers, button \in Buttons : MouseDown(p.x, p.y, button)
    \/ MouseUp
    \/ MouseLeave
    \/ \E p \in Pointers : MouseMove(p.x, p.y)
    \/ \E value \in SliderValues : Slider(value)
    \/ Reset
    \/ \E key \in SceneKeys : KeyDown(key)
    \/ TimerFires
    \/ WorkerOnMessage
    \/ DispatchMessage

Spec == Init /\ [][Next]_vars

----------------------------------------------------------------------------
(* The viewport controller and the pointer handlers on their own *)

\* 5/4 to the k-th power, k any integer: the zoom after |k| wheel notches
ZoomNotches(k) == [n |-> 1, d |-> 1, e2 |-> -2 * k, e5 |-> k]

\* Views Scene1 can be in when the events of a behaviour start:
\*   the default view;
\*   the view after three wheel notches out at the canvas centre (600, 400),
\*   which leaves the centre where it is: zoom = 0.8^3 = 0.512;
\*   the view after a drag by 100 pixels to the left, which moves the centre
\*   from (-0.5, 0) to (0, 0), and 124 wheel notches in at the canvas centre:
\*   1.25^123 is about 8.3e11 and the last notch is clamped to MAX_ZOOM.
\* renders counts the renders so far: the one of the mount and one per event.
StartViews ==
    { [centerX |-> DEFAULT_CENTER_X, centerY |-> DEFAULT_CENTER_Y,
       zoom |-> DEFAULT_ZOOM, maxIterations |-> DEFAULT_MAX_ITERATIONS,
       renders |-> 1],
      [centerX |-> DEFAULT_CENTER_X, centerY |-> DEFAULT_CENTER_Y,
       zoom |-> ZoomNotches(-3),
       maxIterations |-> AdaptiveIterations(ZoomNotches(-3)),
       renders |-> 4],
      [centerX |-> Zero, centerY |-> Zero,
       zoom |-> ClampZoom(ZoomNotches(123), Rat(5, 4)),
       maxIterations |-> AdaptiveIterations(MAX_ZOOM),
       renders |-> 126] }

\* Scene1 in view v with its canvas at rest: every render so far was
\* answered before the next was issued, the last frame is drawn, no timer is
\* pending.
ViewAtRest(v) ==
    /\ stateRef = [centerX |-> v.centerX, centerY |-> v.centerY,
                   zoom |-> v.zoom]
    /\ centerX = v.centerX
    /\ centerY = v.centerY
    /\ zoom = v.zoom
    /\ maxIterations = v.maxIterations
    /\ resetKey = 0
    /\ currentScene = 1
    /\ renderIdRef = v.renders
    /\ isRendering = FALSE
    /\ isDraggingRef = FALSE
    /\ lastMousePosRef = Null
    /\ timer = Null
    /\ timers = EmptyBag
    /\ listeners = {}
    /\ canvasPixels =
           LET m == RequestMessage(
                        Props(v.centerX, v.centerY, v.zoom, v.maxIterations),
                        v.renders)
           IN  [imageData |-> ResultMessage(m).imageData, rid |-> v.renders,
                key |-> 0, drawnBy |-> v.renders]
    /\ inbox = <<>>
    /\ outbox = <<>>
    /\ message = Null
    /\ data = Null
    /\ call = Null
    /\ returned = Null
    /\ variantCanvas = Null
    /\ scene2 = Null
    /\ scene6 = Null
    /\ scene5 = Null
    /\ scene3 = Null
    /\ last = NoEvent

InitView == \E v \in StartViews : ViewAtRest(v) /\ eventBudget = MaxViewEvents

\* The user's events alone.  The steps of the timer, the worker and the
\* message dispatch change neither Scene1's state nor the pointer refs.
NextView ==
    \/ \E p \in Pointers, deltaY \in WheelDeltas : Wheel(p.x, p.y, deltaY)
    \/ \E p \in Pointers, button \in Buttons : MouseDown(p.x, p.y, button)
    \/ MouseUp
    \/ MouseLeave
    \/ \E p \in Pointers : MouseMove(p.x, p.y)
    \/ \E value \in SliderValues : Slider(value)
    \/ Reset

SpecView == InitView /\ [][NextView]_vars

----------------------------------------------------------------------------
(* The whole program from the start views *)

InitRequests ==
    \E v \in StartViews : ViewAtRest(v) /\ eventBudget = MaxRequestEvents

SpecRequests == InitRequests /\ [][Next]_vars

----------------------------------------------------------------------------
(* The frame renderer on small canvases *)

\* the messages a worker is given: small canvases, views with the imaginary
\* centre on the real axis (the symmetry path) and off it
RenderMessages ==
    [width : 1..MaxWidth, height : 1..MaxHeight,
     centerX : {DEFAULT_CENTER_X, Zero, Num(2)},
     centerY : {DEFAULT_CENTER_Y, Num(1)},
     zoom : {DEFAULT_ZOOM, Num(2)},
     maxIterations : 0..MaxIterations]

InitRender ==
    /\ Constructed
    /\ OthersUnmounted
    /\ message \in RenderMessages
    /\ data = Null
    /\ call = Null
    /\ returned = Null
    /\ eventBudget = 0

NextRender == WorkerRender

SpecRender == InitRender /\ [][NextRender]_vars

----------------------------------------------------------------------------
(* Properties: the render protocol *)

\* C1: a worker result is drawn only if it was computed for the most
\* recently issued render request: the frame on the canvas was computed for
\* the request whose id was the latest when the frame was drawn.
C1_DrawnResultIsForLatestRequest ==
    canvasPixels # Null => canvasPixels.rid = canvasPixels.drawnBy

\* C1: a frame computed for a superseded request is on the canvas
C1_StaleResultDrawn ==
    canvasPixels # Null /\ canvasPixels.rid < canvasPixels.drawnBy

\* the frame the worker computes from the current props of the canvas; when
\* no debounce timer is pending these are the props of the last request
CurrentFrame ==
    ResultMessage(RequestMessage(
        Props(centerX, centerY, zoom, maxIterations), renderIdRef)).imageData

\* C2: once every result has been delivered (no request queued in the
\* worker, no result waiting, nothing about to be requested) the canvas shows
\* the frame of the last request issued.
C2_LastRequestIsDisplayed ==
    (renderIdRef > 0 /\ timer = Null /\ inbox = <<>> /\ outbox = <<>>)
        => (canvasPixels # Null /\ canvasPixels.imageData = CurrentFrame)

\* C2: request B was issued while A was unanswered, both results have been
\* delivered, and the canvas shows another frame than B's
C2_FirstOfTwoDisplayed ==
    /\ renderIdRef >= 2 /\ timer = Null /\ inbox = <<>> /\ outbox = <<>>
    /\ canvasPixels # Null
    /\ canvasPixels.rid = renderIdRef - 1
    /\ canvasPixels.imageData # CurrentFrame

----------------------------------------------------------------------------
(* Properties: the frame renderer *)

\* C3: with centerY = 0 the symmetry path of renderMandelbrot writes to
\* every pixel the colour a full scan writes, which evaluates each pixel at
\* its own point centerY + (py - height/2) * scale.
C3_SymmetryEqualsFullScan ==
    (data # Null /\ message.centerY = Zero)
        => \A i \in DOMAIN data.pixels :
              data.pixels[i].color = renderFullScan(message)[i].color

\* C3: the symmetry path has rendered a frame of two or more rows in which
\* a pixel is lit where the full scan leaves it black
C3_MirroredRowDiffers ==
    /\ data # Null /\ message.centerY = Zero /\ message.height >= 2
    /\ \E i \in DOMAIN data.pixels :
          /\ data.pixels[i].color # Black
          /\ renderFullScan(message)[i].color = Black

\* C17: for every width >= 1 and height >= 1, on the symmetry path and on
\* the full path, renderMandelbrot leaves a buffer of width * height pixels
\* in which every pixel has alpha 255 and was written exactly once; at an odd
\* height under symmetry the centre row holds the colours computed for the
\* centre row itself.
C17_EveryPixelWrittenOnce ==
    data # Null =>
        /\ DOMAIN data.pixels = 0..(message.width * message.height - 1)
        /\ \A i \in DOMAIN data.pixels :
               /\ data.pixels[i].alpha = 255
               /\ data.pixels[i].writes = 1
               /\ (message.height % 2 = 1
                     /\ i \div message.width = message.height \div 2)
                  => data.pixels[i].color =
                         pixelColor(i % message.width, message.height \div 2,
                                    message)

\* the symmetry path has rendered a frame of odd height, three rows or more
C17_OddHeightUnderSymmetry ==
    /\ data # Null
    /\ message.centerY = Zero
    /\ message.height % 2 = 1
    /\ message.height >= 3
    /\ message.width >= 2

----------------------------------------------------------------------------
(* Properties: the viewport controller *)

\* the step is user event `kind`
IsEvent(kind) == last'.seq = last.seq + 1 /\ last'.kind = kind

ZoomInThenOut ==
    /\ last.kind = "wheel" /\ last.arg > 0
    /\ last.prev.kind = "wheel" /\ last.prev.arg < 0
    /\ last.x = last.prev.x /\ last.y = last.prev.y

\* the view (centerX, centerY, zoom, in stateRef and in React state) is v
ViewIs(v) ==
    /\ stateRef = v
    /\ centerX = v.centerX /\ centerY = v.centerY /\ zoom = v.zoom

ValidViewport(v) ==
    /\ Le(MIN_ZOOM, v.zoom) /\ Le(v.zoom, MAX_ZOOM) /\ Lt(Zero, v.zoom)
    /\ v.width = CANVAS_WIDTH /\ v.height = CANVAS_HEIGHT
    /\ v.width > 0 /\ v.height > 0

\* C6: in every reachable state 0.5 <= zoom <= 1e12 (in React state and in
\* stateRef) and width and height are the fixed positive canvas dimensions,
\* and so has every render request: the one a pending timer will post and
\* those posted to the worker.
C6_ViewportValid ==
    /\ ValidViewport(viewport)
    /\ ValidViewport(stateRef @@ [width |-> CANVAS_WIDTH,
                                  height |-> CANVAS_HEIGHT])
    /\ timer # Null => ValidViewport(timer)
    /\ \A i \in 1..Len(inbox) : ValidViewport(inbox[i])

\* C6: a request is with the worker that carries the zoom of a zoom event
\* the lower limit has cut short
C6_ClampedZoomRequested ==
    /\ last.kind = "wheel" /\ last.arg > 0
    /\ Lt(Mul(last.view.zoom, wheelZoomFactor(last.arg)), MIN_ZOOM)
    /\ inbox # <<>>
    /\ inbox[Len(inbox)].zoom = MIN_ZOOM

\* C7: a zoom event whose clamped new zoom equals the current zoom changes
\* neither centerX, centerY, zoom, maxIterations nor stateRef, and no render
\* request results from it: no timer is set or reset, nothing is posted.
C7_ZoomAtLimitIsNoOp ==
    [][(/\ IsEvent("wheel")
        /\ ClampZoom(stateRef.zoom, wheelZoomFactor(last'.arg)) = stateRef.zoom)
          => UNCHANGED <<stateRef, centerX, centerY, zoom, maxIterations,
                         timer, inbox, renderIdRef>>]_vars

\* C7: a zoom event at a zoom limit has happened after the slider had set
\* maxIterations to a value the zoom would not have given it
C7_ZoomedAtLimit ==
    /\ last.kind = "wheel"
    /\ ClampZoom(last.view.zoom, wheelZoomFactor(last.arg)) = last.view.zoom
    /\ maxIterations # AdaptiveIterations(zoom)

\* C8: handlePan(dx, dy) sets centerX to centerX - dx * scale and centerY to
\* centerY - dy * scale, scale = 4 / (zoom * min(width, height)) with the
\* zoom before the pan, in React state and in stateRef, and leaves zoom and
\* maxIterations unchanged.
C8_PanMovesCentre ==
    [][(IsEvent("mouseMove") /\ last'.onPan)
          => LET scale == Div(Num(4),
                              Mul(zoom, Num(Min(CANVAS_WIDTH, CANVAS_HEIGHT))))
                 dx == Num(last'.x - lastMousePosRef.x)
                 dy == Num(last'.y - lastMousePosRef.y)
             IN  /\ centerX' = Sub(centerX, Mul(dx, scale))
                 /\ centerY' = Sub(centerY, Mul(dy, scale))
                 /\ stateRef' = [centerX |-> centerX', centerY |-> centerY',
                                 zoom |-> zoom]
                 /\ UNCHANGED <<zoom, maxIterations>>]_vars

\* C8: a pan has moved the centre in both directions, at a zoom other than 1
C8_Panned ==
    /\ last.kind = "mouseMove" /\ last.onPan
    /\ zoom # DEFAULT_ZOOM
    /\ centerX # last.view.centerX /\ centerY # last.view.centerY

NotYetRendered ==
    IF last.view = Null THEN scene
    ELSE [scene EXCEPT !.centerX = last.view.centerX,
                       !.centerY = last.view.centerY,
                       !.zoom = last.view.zoom]

\* C28: after every handler of Scene1 the centerX, centerY and zoom of
\* stateRef are the values written to React state; and the events of a burst
\* compose on the ref: a zoom or pan handled before the event before it was
\* rendered gives the viewport it gives when handled after.
C28_RefAndStateAgree ==
    [][ /\ stateRef' = [centerX |-> centerX', centerY |-> centerY',
                        zoom |-> zoom']
        /\ IsEvent("wheel") =>
               LET h == handleZoom(NotYetRendered, last'.x, last'.y,
                                   wheelZoomFactor(last'.arg))
               IN  /\ h.stateRef = stateRef'
                   /\ h.stateRef # stateRef =>
                          /\ h.centerX = centerX'
                          /\ h.centerY = centerY'
                          /\ h.zoom = zoom'
                          /\ h.maxIterations = maxIterations'
        /\ (IsEvent("mouseMove") /\ last'.onPan) =>
               LET h == handlePan(NotYetRendered,
                                  last'.x - lastMousePosRef.x,
                                  last'.y - lastMousePosRef.y)
               IN  /\ h.stateRef = stateRef'
                   /\ h.centerX = centerX'
                   /\ h.centerY = centerY'
      ]_vars

\* a pan was handled right after a zoom that changed the view
C28_PanRightAfterZoom ==
    /\ last.kind = "mouseMove" /\ last.onPan
    /\ last.prev.kind = "wheel"
    /\ last.prev.view # last.view
    /\ last.prev.view.zoom # last.view.zoom
    /\ stateRef # last.view
    /\ stateRef = [centerX |-> centerX, centerY |-> centerY, zoom |-> zoom]

\* C29: in Scene1 maxIterations is a multiple of 50 from 50 to 2000 in every
\* state; right after a zoom that was applied it is
\* min(200 + 100 * log10(zoom), 2000) rounded to the nearest multiple of 50,
\* whatever the slider had set; a pan does not change it.
C29_IterationsInSteps ==
    [][ /\ maxIterations' \in {50 * k : k \in 1..40}
        /\ (IsEvent("wheel") /\ stateRef' # stateRef) =>
               LET target == Min(200 * 1000000 + 100 * Log10Scaled(zoom'),
                                 2000 * 1000000)
               IN  /\ maxIterations' * 1000000 - 25 * 1000000 <= target
                   /\ target < maxIterations' * 1000000 + 25 * 1000000
        /\ IsEvent("mouseMove") => maxIterations' = maxIterations
      ]_vars

\* a zoom replaced the value the slider had set by a budget that is rounded
\* up to its multiple of 50
C29_ZoomOverwroteSlider ==
    /\ last.kind = "wheel"
    /\ last.prev.kind = "slider"
    /\ last.prev.arg = 2000
    /\ stateRef # last.view
    /\ maxIterations < 2000
    /\ maxIterations * 1000000
           > Min(200 * 1000000 + 100 * Log10Scaled(zoom), 2000 * 1000000)

\* C9: a pointer move with zero displacement while dragging does not invoke
\* onPan, leaves Scene1's state unchanged, and no render request is issued
\* because of it: no timer is set or reset, nothing is posted.
C9_ZeroMoveIsNoOp ==
    [][(/\ IsEvent("mouseMove")
        /\ isDraggingRef
        /\ lastMousePosRef = [x |-> last'.x, y |-> last'.y])
          => /\ ~last'.onPan
             /\ UNCHANGED <<sceneVars, timer, inbox, renderIdRef>>]_vars

\* C9: a pointer move with zero displacement has happened during a drag
C9_ZeroMoved ==
    /\ last.kind = "mouseMove" /\ ~last.onPan
    /\ isDraggingRef
    /\ last.prev.kind \in {"mouseDown", "mouseMove"}
    /\ last.prev.x = last.x /\ last.prev.y = last.y

\* C10: the drag state is a two-state machine.  It becomes Dragging only on
\* a primary-button press, which records the pointer position; a release or
\* the pointer leaving the canvas makes it Idle; a non-primary press leaves
\* it as it is; onPan is invoked only while it is Dragging; and the recorded
\* position is there exactly while it is Dragging.
C10_DragStateMachine ==
    [][/\ (~isDraggingRef /\ isDraggingRef')
            => /\ IsEvent("mouseDown") /\ last'.arg = 0
               /\ lastMousePosRef' = [x |-> last'.x, y |-> last'.y]
       /\ (IsEvent("mouseDown") /\ last'.arg = 0) => isDraggingRef'
       /\ (IsEvent("mouseUp") \/ IsEvent("mouseLeave")) => ~isDraggingRef'
       /\ (IsEvent("mouseDown") /\ last'.arg # 0)
            => UNCHANGED <<isDraggingRef, lastMousePosRef>>
       /\ (last'.seq # last.seq /\ last'.onPan) => isDraggingRef
       /\ isDraggingRef' <=> lastMousePosRef' # Null]_vars

\* C10: a drag that panned the view has been ended by a release or by the
\* pointer leaving the canvas
C10_DragEnded ==
    /\ last.kind \in {"mouseUp", "mouseLeave"}
    /\ last.prev.kind = "mouseMove"
    /\ last.view # last.prev.view
    /\ ~isDraggingRef

----------------------------------------------------------------------------
(* Debounce of the render requests *)

\* the props the canvas has now, as a timer armed now would capture them
CurrentProps == Props(centerX, centerY, zoom, maxIterations)

\* a step that posted a request to the worker
Posted == Len(inbox') > Len(inbox)

\* a step that changed the viewport or maxIterations of the canvas, or
\* replaced the canvas by a new one
PropsChanged == currentScene' = 1 /\ ReactState(scene)' # ReactState(scene)

\* C11: render requests are trailing-debounced.  At most one debounce timer
\* is pending per canvas; each change of viewport or maxIterations clears the
\* pending timer, arms one that captures the new props, and posts nothing; a
\* request is posted only by the expiry of the pending timer, carries the
\* viewport and maxIterations the canvas has at that moment, and leaves no
\* timer pending, so a burst of changes ends in exactly one request.
C11_TrailingDebounce ==
    [][ /\ BagCardinality(timers) <= 1
        /\ BagCardinality(timers') <= 1
        /\ PropsChanged =>
               /\ timers' = SetToBag({CurrentProps'})
               /\ ~Posted
        /\ Posted =>
               /\ timers # EmptyBag
               /\ timers' = EmptyBag
               /\ ~PropsChanged
               /\ Len(inbox') = Len(inbox) + 1
               /\ inbox'[Len(inbox')] =
                      RequestMessage(CurrentProps, renderIdRef')
      ]_vars

\* two changes arrived before the timer of the mount expired, then the timer
\* of the second change expired: one request, for the view after the burst
C11_BurstOfTwoThenOneRequest ==
    /\ nEvents = 2
    /\ last.onZoom
    /\ last.prev.kind = "wheel"
    /\ last.prev.view # last.view
    /\ last.view # stateRef
    /\ renderIdRef = 1
    /\ timers = EmptyBag
    /\ Len(inbox) = 1
    /\ inbox[1] = RequestMessage(CurrentProps, 1)

----------------------------------------------------------------------------
(* Render identifiers *)

\* the render ids of the requests and results in flight, oldest first
InFlightIds ==
    [i \in 1..(Len(outbox) + Len(inbox)) |->
        IF i <= Len(outbox) THEN outbox[i].rid ELSE inbox[i - Len(outbox)].rid]

\* the identifiers issued so far whose handleMessage would draw a result
CurrentIds == {id \in 1..renderIdRef : handleMessage(id, renderIdRef)}

\* C12: within one canvas instance the render identifier grows by exactly one
\* with every request issued and changes at no other step, so it never
\* decreases and no identifier is issued twice; the identifiers in flight are
\* strictly increasing, every registered listener holds an issued identifier,
\* and exactly one issued identifier, the latest, is current.
C12_RenderIdIncreasesByOne ==
    [][ /\ Posted =>
               /\ renderIdRef' = renderIdRef + 1
               /\ inbox'[Len(inbox')].rid = renderIdRef'
        /\ (resetKey' = resetKey /\ currentScene' = currentScene) =>
               /\ renderIdRef' \in {renderIdRef, renderIdRef + 1}
               /\ renderIdRef' # renderIdRef => Posted
        /\ \A i \in 1..(Len(InFlightIds') - 1) :
               InFlightIds'[i] < InFlightIds'[i + 1]
        /\ listeners' \subseteq 1..renderIdRef'
        /\ renderIdRef' > 0 => CurrentIds' = {renderIdRef'}
      ]_vars

\* one canvas instance has issued two requests, both still unanswered
C12_TwoRequestsIssued ==
    /\ renderIdRef = 2
    /\ Len(inbox) = 2
    /\ inbox[1].rid = 1
    /\ inbox[2].rid = 2
    /\ listeners = {1, 2}

----------------------------------------------------------------------------
(* Unmounting the canvas *)

\* a step that unmounted the canvas instance: Reset, or a key that left
\* scene 1
Unmounted == currentScene = 1 /\ (resetKey' # resetKey \/ currentScene' # 1)

\* C18: when the canvas instance is unmounted, by Reset or by a scene
\* switch, its worker is terminated and its pending timer cleared: after the
\* step no request and no result of the instance is queued, none of its
\* listeners is registered, nothing it drew is on the canvas, and the only
\* timer pending is the one of the canvas mounted by the step, if any; while
\* no canvas is mounted nothing is posted and nothing is drawn.
C18_UnmountTerminatesAndClears ==
    [][ /\ Unmounted =>
               /\ inbox' = <<>>
               /\ outbox' = <<>>
               /\ listeners' = {}
               /\ canvasPixels' = Null
               /\ renderIdRef' = 0
               /\ timers' = IF currentScene' = 1
                            THEN SetToBag({CurrentProps'})
                            ELSE EmptyBag
        /\ currentScene' # 1 =>
               /\ ~Posted
               /\ timers' = EmptyBag
               /\ canvasPixels' = Null
      ]_vars

\* a canvas was unmounted by a scene switch while a timer was pending or a
\* request or a result was in flight, right after a wheel event
C18_UnmountedWhileBusy ==
    /\ last.kind = "keyDown"
    /\ last.busy
    /\ last.prev.kind = "wheel"
    /\ currentScene # 1
    /\ timers = EmptyBag
    /\ inbox = <<>>
    /\ outbox = <<>>

----------------------------------------------------------------------------
(* The worker's queue of requests *)

\* the step issued a request: it is queued behind the requests in flight,
\* which stay as they are
Issued ==
    /\ Len(inbox') = Len(inbox) + 1
    /\ SubSeq(inbox', 1, Len(inbox)) = inbox
    /\ inbox'[Len(inbox')].rid = renderIdRef'
    /\ outbox' = outbox

\* the step computed the oldest request to completion: its result, and
\* nothing else, is queued behind the results already produced
Computed ==
    /\ inbox # <<>>
    /\ inbox' = Tail(inbox)
    /\ Len(outbox') = Len(outbox) + 1
    /\ SubSeq(outbox', 1, Len(outbox)) = outbox
    /\ LET m == Head(inbox)
           r == outbox'[Len(outbox')]
       IN  /\ r.rid = m.rid
           /\ r.imageData = [width |-> m.width, height |-> m.height,
                             centerX |-> m.centerX, centerY |-> m.centerY,
                             zoom |-> m.zoom,
                             maxIterations |-> m.maxIterations]

\* the step delivered the oldest result
Delivered ==
    /\ outbox # <<>>
    /\ outbox' = Tail(outbox)
    /\ inbox' = inbox

\* the render ids of the results and requests in flight, oldest first
InFlightLine == [i \in 1..(Len(outbox) + Len(inbox)) |->
                    IF i <= Len(outbox) THEN outbox[i].rid
                    ELSE inbox[i - Len(outbox)].rid]

\* C19 as stated: every step leaves the requests and results in flight alone,
\* or issues a request behind them, or computes the oldest request to
\* completion, or delivers the oldest result; no request and no result is
\* ever dropped.
C19_EveryRequestComputed ==
    [][ UNCHANGED <<inbox, outbox>> \/ Issued \/ Computed \/ Delivered ]_vars

\* C19: as long as the canvas is not unmounted, every step leaves the
\* requests and results in flight alone, or issues a request behind them, or
\* computes the oldest request to completion, or delivers the oldest result;
\* the ids in flight are consecutive and end at the latest render id, so each
\* request has exactly one result and the results are in request order.
C19_ComputedInOrderUntilUnmount ==
    [][ /\ ~Unmounted =>
               UNCHANGED <<inbox, outbox>> \/ Issued \/ Computed \/ Delivered
        /\ \A i \in DOMAIN InFlightLine' :
               InFlightLine'[i] = renderIdRef' - Len(InFlightLine') + i
      ]_vars

\* a second request was issued while the first was in flight, and both were
\* computed, in issue order
C19_TwoResultsInOrder ==
    /\ Len(outbox) = 2
    /\ outbox[1].rid = 1
    /\ outbox[2].rid = 2
    /\ outbox[1].imageData # outbox[2].imageData

----------------------------------------------------------------------------
(* Reset View *)

\* C24: from any reachable state Reset View sets centerX = -0.5, centerY = 0
\* and zoom = 1 in stateRef and in React state and maxIterations = 200, and
\* mounts a new canvas: no request or result of the old one stays in flight,
\* and what is drawn afterwards was requested by the canvas that draws it; a
\* second Reset leaves the viewport as the first left it.
C24_ResetRestoresDefaults ==
    [][ /\ IsEvent("reset") =>
               /\ stateRef' = [centerX |-> Rat(-1, 2), centerY |-> Zero,
                               zoom |-> Num(1)]
               /\ centerX' = Rat(-1, 2)
               /\ centerY' = Zero
               /\ zoom' = Num(1)
               /\ maxIterations' = 200
               /\ resetKey' = resetKey + 1
               /\ inbox' = <<>>
               /\ outbox' = <<>>
               /\ canvasPixels' = Null
               /\ last.kind = "reset" =>
                      /\ stateRef' = stateRef
                      /\ viewport' = viewport
                      /\ maxIterations' = maxIterations
        /\ canvasPixels' # Null => canvasPixels'.key = resetKey'
      ]_vars

\* Reset View was pressed in a zoomed view while a timer was pending or a
\* message in flight
C24_ResetFromZoomedView ==
    /\ last.kind = "reset"
    /\ last.busy
    /\ last.view.zoom # DEFAULT_ZOOM
    /\ stateRef.zoom = DEFAULT_ZOOM
    /\ zoom = DEFAULT_ZOOM
    /\ resetKey = 1

----------------------------------------------------------------------------
(* The isRendering flag *)

\* the result of the request issued last has been drawn
LatestDrawn ==
    /\ canvasPixels # Null
    /\ canvasPixels.rid = renderIdRef
    /\ canvasPixels.key = resetKey

\* C25: isRendering is true exactly from the issue of a render request until
\* the result of the request issued last has been drawn; whenever it is
\* false, no request of the canvas is queued or being computed in the worker.
C25_RenderingUntilLatestDrawn ==
    currentScene = 1 =>
        /\ isRendering <=> (renderIdRef > 0 /\ ~LatestDrawn)
        /\ ~isRendering => inbox = <<>>

\* the flag is false while the second of two requests is still queued in
\* the worker
C25_IdleWhileRequestQueued ==
    /\ currentScene = 1
    /\ ~isRendering
    /\ renderIdRef = 2
    /\ Len(inbox) = 1
    /\ inbox[1].rid = 2

----------------------------------------------------------------------------
(* The message listeners on the worker *)

\* every request issued has been answered and its result dispatched, and no
\* timer is about to issue another
AllAnswered ==
    /\ currentScene = 1
    /\ renderIdRef > 0
    /\ timers = EmptyBag
    /\ inbox = <<>>
    /\ outbox = <<>>

\* C26: every message listener that render() registers on the worker is
\* removed in the end: once all issued requests have been answered no
\* listener remains registered.
C26_NoListenerLeft == AllAnswered => listeners = {}

\* two requests were issued and answered, and the listener of the first is
\* still registered
C26_StaleListenerLeft ==
    /\ AllAnswered
    /\ renderIdRef = 2
    /\ listeners = {1}

----------------------------------------------------------------------------
(* The adaptive iteration budget over the whole zoom range *)

\* the zoom after k wheel notches at the default zoom, each clamped to
\* [MIN_ZOOM, MAX_ZOOM]: 0.5 from four notches out, 1e12 from 124 notches in
ZoomLevels ==
    { ClampZoom(ZoomNotches(k), Num(1)) : k \in -MaxNotchesOut..MaxNotchesIn }

\* the fewest wheel notches that take the default zoom to zoom level z
NotchesTo(z) ==
    LET counts == { Abs(k) : k \in { j \in -MaxNotchesOut..MaxNotchesIn :
                                        ClampZoom(ZoomNotches(j), Num(1)) = z } }
    IN  CHOOSE c \in counts : \A other \in counts : c <= other

\* Scene1 at each zoom level after a drag that moved the centre to (0, 0)
\* and the wheel notches at the canvas centre, maxIterations as handleZoom
\* set it.  Left out are the levels from which MaxZoomEvents notches in are
\* clamped to MAX_ZOOM by a factor other than 5/4: the exact form of that
\* factor needs integers of more than 250 bits.
ZoomLevelViews ==
    { [centerX |-> Zero, centerY |-> Zero, zoom |-> z,
       maxIterations |-> AdaptiveIterations(z),
       renders |-> 2 + NotchesTo(z)] :
        z \in { l \in ZoomLevels :
                   \/ l = MAX_ZOOM
                   \/ Le(Mul(l, ZoomNotches(MaxZoomEvents)), MAX_ZOOM) } }

InitZoomLevels ==
    \E v \in ZoomLevelViews : ViewAtRest(v) /\ eventBudget = MaxZoomEvents

NextZoomLevels ==
    \E p \in Pointers, deltaY \in WheelDeltas : Wheel(p.x, p.y, deltaY)

SpecZoomLevels == InitZoomLevels /\ [][NextZoomLevels]_vars

\* C13: the iteration budget handleZoom computes is monotone in the zoom.
\* After every zoom that was applied, the maxIterations it set for the new
\* zoom is at least the budget of every zoom level below the new zoom and at
\* most the budget of every zoom level above it.
C13_IterationsMonotoneInZoom ==
    (last.onZoom /\ stateRef.zoom # last.view.zoom) =>
        \A z \in ZoomLevels :
            /\ Le(z, zoom) => AdaptiveIterations(z) <= maxIterations
            /\ Le(zoom, z) => maxIterations <= AdaptiveIterations(z)

\* a zoom was applied at a level where the budget is strictly between the
\* budgets of the lowest and the highest zoom
C13_ZoomedBetweenBudgets ==
    /\ last.onZoom
    /\ stateRef.zoom # last.view.zoom
    /\ AdaptiveIterations(MIN_ZOOM) < maxIterations
    /\ maxIterations < AdaptiveIterations(MAX_ZOOM)
    /\ \E z \in ZoomLevels : Lt(z, zoom) /\ AdaptiveIterations(z) = maxIterations

----------------------------------------------------------------------------
(* The two evaluators called on their own *)

\* the points c the evaluators are called with: inside the main cardioid,
\* inside the period-2 bulb, on their boundaries, in the set outside both,
\* and outside the set
EvaluatorPoints ==
    { <<Zero, Zero>>, <<Rat(-1, 2), Zero>>, <<Rat(1, 5), Zero>>,
      <<Zero, Rat(1, 2)>>, <<Rat(-1, 4), Rat(-1, 2)>>,
      <<Num(-1), Zero>>, <<Num(-1), Rat(1, 5)>>, <<Rat(-9, 8), Zero>>,
      <<Rat(1, 4), Zero>>, <<Rat(-3, 4), Zero>>, <<Rat(-5, 4), Zero>>,
      <<Num(-2), Zero>>, <<Zero, Num(1)>>, <<Rat(-7, 4), Zero>>,
      <<Num(1), Zero>>, <<Rat(1, 2), Zero>>, <<Rat(1, 2), Rat(1, 2)>>,
      <<Num(2), Num(2)>>, <<Num(-2), Num(1)>>, <<Num(3), Zero>>,
      <<Zero, Num(-2)>>, <<Num(1), Num(1)>>, <<Rat(-1, 2), Num(1)>>,
      <<Rat(-5, 2), Zero>> }

\* points of the set whose orbit ends in a cycle of integers: 0, -1, -2,
\* i and -i
CyclePoints ==
    { <<Zero, Zero>>, <<Num(-1), Zero>>, <<Num(-2), Zero>>,
      <<Zero, Num(1)>>, <<Zero, Num(-1)>> }

EvaluatorCalls ==
    { [cReal |-> c[1], cImag |-> c[2], maxIterations |-> mi] :
        c \in EvaluatorPoints, mi \in 0..MaxEvaluatorIterations }
    \cup
    { [cReal |-> c[1], cImag |-> c[2], maxIterations |-> mi] :
        c \in CyclePoints, mi \in 0..MaxOrbitIterations }

InitEvaluate ==
    /\ Constructed
    /\ OthersUnmounted
    /\ message = Null
    /\ data = Null
    /\ call \in EvaluatorCalls
    /\ returned = [worker |-> Null, utils |-> Null]
    /\ eventBudget = 0

\* the worker's calculateMandelbrot returns
EvaluateWorker ==
    /\ returned.worker = Null
    /\ returned' = [returned EXCEPT !.worker =
           calculateMandelbrot(call.cReal, call.cImag, call.maxIterations)]
    /\ UNCHANGED <<call, message, data, otherVars, sceneVars, canvasVars, workerVars,
                   histVars>>

\* the utils' calculateMandelbrot returns
EvaluateUtils ==
    /\ returned.utils = Null
    /\ returned' = [returned EXCEPT !.utils =
           utilsCalculateMandelbrot(call.cReal, call.cImag,
                                    call.maxIterations)]
    /\ UNCHANGED <<call, message, data, otherVars, sceneVars, canvasVars, workerVars,
                   histVars>>

NextEvaluate == EvaluateWorker \/ EvaluateUtils

SpecEvaluate == InitEvaluate /\ [][NextEvaluate]_vars

\* c strictly inside the main cardioid or the period-2 bulb
StrictlyInside(x, y) ==
    LET xq == Sub(x, Rat(1, 4))
        q  == Add(Mul(xq, xq), Mul(y, y))
        x1 == Add(x, Num(1))
    IN  \/ Lt(Mul(q, Add(q, xq)), Mul(Rat(1, 4), Mul(y, y)))
        \/ Lt(Add(Mul(x1, x1), Mul(y, y)), Rat(1, 16))

\* C14: for every c strictly inside the main cardioid or the period-2 bulb
\* and every maxIterations >= 0, each evaluator returns the bounded outcome,
\* the number maxIterations, and iterationToColor maps it to (0, 0, 0).
C14_InteriorIsBoundedAndBlack ==
    StrictlyInside(call.cReal, call.cImag) =>
        \A r \in {returned.worker, returned.utils} :
            r # Null =>
                /\ r = Bounded(call.maxIterations)
                /\ iterationToColor(r, call.maxIterations) = Black

\* both evaluators have returned for a point inside the cardioid, off the
\* origin, and for one inside the bulb, off its centre, with a budget the
\* plain loop runs through
C14_InteriorEvaluated ==
    /\ call.maxIterations >= 2
    /\ <<call.cReal, call.cImag>> \in { <<Rat(1, 5), Zero>>,
                                        <<Num(-1), Rat(1, 5)>> }
    /\ StrictlyInside(call.cReal, call.cImag)
    /\ returned.worker # Null
    /\ returned.utils # Null

\* the call is for c = (2, 2)
CallAtTwoTwo == call.cReal = Num(2) /\ call.cImag = Num(2)

\* C15 as stated: for c = (2, 2) each evaluator returns the escaped outcome
\* with iteration 0 or 1, whatever the iteration budget maxIterations >= 0.
C15_EscapesAtEveryBudget ==
    CallAtTwoTwo =>
        \A r \in {returned.worker, returned.utils} :
            r # Null => r.escaped /\ r.iteration \in {0, 1}

\* C15 as the code has it: for c = (2, 2) each evaluator returns the escaped
\* outcome with iteration 1 when maxIterations >= 2; with maxIterations 0 or
\* 1 the loop ends before the escape test sees z = c, and the evaluator
\* returns the bounded outcome maxIterations.
C15_EscapesFromBudgetTwo ==
    CallAtTwoTwo =>
        \A r \in {returned.worker, returned.utils} :
            r # Null =>
                IF call.maxIterations >= 2
                THEN r.escaped /\ r.iteration \in {0, 1}
                ELSE r = Bounded(call.maxIterations)

\* both evaluators have returned for c = (2, 2) with a budget of two or more
C15_TwoTwoEvaluated ==
    /\ CallAtTwoTwo
    /\ call.maxIterations >= 2
    /\ returned.worker = Escaped(1, Num(8))
    /\ returned.utils = Escaped(1, Num(8))


\* C20: for every c and maxIterations, the worker's calculateMandelbrot,
\* with its cardioid and bulb tests and its periodicity check, returns what
\* the plain loop of the utils' calculateMandelbrot returns: the bounded
\* outcome maxIterations when the plain loop runs through, and otherwise the
\* escaped outcome of the same iteration and the same value.
C20_ShortcutsKeepTheOutcome ==
    (returned.worker # Null /\ returned.utils # Null) =>
        /\ returned.worker.escaped = returned.utils.escaped
        /\ returned.worker.iteration = returned.utils.iteration
        /\ returned.worker.mag2 = returned.utils.mag2
        /\ ~returned.worker.escaped =>
               returned.worker.iteration = call.maxIterations

\* both evaluators have returned for c = i, outside the cardioid and the
\* bulb, with a budget the periodicity check cuts short: the snapshot taken
\* after 21 iterations is met again two iterations later
C20_CycleCutShort ==
    /\ call.cReal = Zero
    /\ call.cImag = Num(1)
    /\ ~inCardioid(call.cReal, call.cImag)
    /\ ~inPeriod2Bulb(call.cReal, call.cImag)
    /\ call.maxIterations = 23
    /\ returned.worker = Bounded(23)
    /\ returned.utils = Bounded(23)

----------------------------------------------------------------------------
(* IEEE-754 doubles, for the code whose claims are about what the doubles *)
(* themselves give.  A natural number of any size is the sequence of its  *)
(* digits in base 2^15, lowest first, without leading zeros; a double is  *)
(* sign * m * 2^e with m an odd natural of at most 53 bits, or zero.      *)
(* Exponent overflow, subnormals, NaN and -0 are outside the values the   *)
(* modelled code computes.                                                *)

Limb == 2^15

\* the natural number n < 2^31
RECURSIVE BigOf(_)
BigOf(n) == IF n = 0 THEN <<>> ELSE <<n % Limb>> \o BigOf(n \div Limb)

\* a without its leading zero digits
RECURSIVE BigTrim(_)
BigTrim(a) ==
    IF a # <<>> /\ a[Len(a)] = 0 THEN BigTrim(SubSeq(a, 1, Len(a) - 1)) ELSE a

\* -1, 0, 1 as a < b, a = b, a > b
RECURSIVE BigCmpFrom(_, _, _)
BigCmpFrom(a, b, i) ==
    IF i = 0 THEN 0
    ELSE IF a[i] < b[i] THEN -1
    ELSE IF a[i] > b[i] THEN 1
    ELSE BigCmpFrom(a, b, i - 1)

BigCmp(a, b) ==
    IF Len(a) < Len(b) THEN -1
    ELSE IF Len(a) > Len(b) THEN 1
    ELSE BigCmpFrom(a, b, Len(a))

RECURSIVE BigAddCarry(_, _, _)
BigAddCarry(a, b, carry) ==
    IF a = <<>> /\ b = <<>> THEN (IF carry = 0 THEN <<>> ELSE <<carry>>)
    ELSE LET x == IF a = <<>> THEN 0 ELSE Head(a)
             y == IF b = <<>> THEN 0 ELSE Head(b)
             s == x + y + carry
         IN  <<s % Limb>> \o BigAddCarry(IF a = <<>> THEN a ELSE Tail(a),
                                         IF b = <<>> THEN b ELSE Tail(b),
                                         s \div Limb)

BigAdd(a, b) == BigAddCarry(a, b, 0)

\* a - b for a >= b
RECURSIVE BigSubBorrow(_, _, _)
BigSubBorrow(a, b, borrow) ==
    IF a = <<>> THEN <<>>
    ELSE LET y == IF b = <<>> THEN 0 ELSE Head(b)
             d == Head(a) - y - borrow
         IN  <<d % Limb>> \o BigSubBorrow(Tail(a),
                                          IF b = <<>> THEN b ELSE Tail(b),
                                          IF d < 0 THEN 1 ELSE 0)

BigSub(a, b) == BigTrim(BigSubBorrow(a, b, 0))

\* a * k for a digit k
RECURSIVE BigMulDigit(_, _, _)
BigMulDigit(a, k, carry) ==
    IF a = <<>> THEN (IF carry = 0 THEN <<>> ELSE <<carry>>)
    ELSE LET p == Head(a) * k + carry
         IN  <<p % Limb>> \o BigMulDigit(Tail(a), k, p \div Limb)

RECURSIVE BigMul(_, _)
BigMul(a, b) ==
    IF a = <<>> \/ b = <<>> THEN <<>>
    ELSE BigAdd(BigMulDigit(a, Head(b), 0),
                IF Tail(b) = <<>> THEN <<>> ELSE <<0>> \o BigMul(a, Tail(b)))

\* a * 2^k
BigShl(a, k) ==
    IF a = <<>> THEN <<>>
    ELSE [i \in 1..(k \div 15) |-> 0] \o BigMulDigit(a, 2^(k % 15), 0)

\* floor(a / 2^k) for k < 15, from the highest digit down
RECURSIVE BigShrDigits(_, _, _)
BigShrDigits(a, k, carry) ==
    IF a = <<>> THEN <<>>
    ELSE LET top == a[Len(a)] + carry * Limb
         IN  BigShrDigits(SubSeq(a, 1, Len(a) - 1), k, top % (2^k))
               \o <<top \div (2^k)>>

\* floor(a / 2^k)
BigShr(a, k) ==
    IF k \div 15 >= Len(a) THEN <<>>
    ELSE BigTrim(BigShrDigits(SubSeq(a, k \div 15 + 1, Len(a)), k % 15, 0))

\* the number of bits of n < 2^15 and of a
RECURSIVE BitLen(_)
BitLen(n) == IF n = 0 THEN 0 ELSE 1 + BitLen(n \div 2)

BigBitLen(a) == IF a = <<>> THEN 0 ELSE 15 * (Len(a) - 1) + BitLen(a[Len(a)])

BigIsOdd(a) == a # <<>> /\ a[1] % 2 = 1

\* bit i of a, bit 0 the lowest
BigBit(a, i) ==
    IF i \div 15 >= Len(a) THEN 0 ELSE (a[i \div 15 + 1] \div 2^(i % 15)) % 2

\* quotient and remainder of a by b # 0: long division in base 2, bits i
\* down to low of a brought down onto the remainder r, the quotient bits
\* appended to q
RECURSIVE BigDivBits(_, _, _, _, _, _)
BigDivBits(a, b, i, low, q, r) ==
    IF i < low THEN [q |-> q, r |-> r]
    ELSE LET r2 == BigAdd(BigShl(r, 1), BigOf(BigBit(a, i)))
             q2 == BigShl(q, 1)
         IN  IF Len(q2) >= 0 /\ BigCmp(r2, b) >= 0
             THEN BigDivBits(a, b, i - 1, low, BigAdd(q2, <<1>>),
                             BigSub(r2, b))
             ELSE BigDivBits(a, b, i - 1, low, q2, r2)

\* the same, one digit of a at a time from digit d down
RECURSIVE BigDivDigits(_, _, _, _)
BigDivDigits(a, b, d, qr) ==
    IF d < 1 THEN qr
    ELSE LET next == BigDivBits(a, b, 15 * d - 1, 15 * (d - 1), qr.q, qr.r)
         IN  IF Len(next.q) >= 0 THEN BigDivDigits(a, b, d - 1, next)
             ELSE next

BigDivMod(a, b) == BigDivDigits(a, b, Len(a), [q |-> <<>>, r |-> <<>>])

\* the double sign * m * 2^e in canonical form: m odd, or zero
RECURSIVE Double(_, _, _)
Double(sign, m, e) ==
    IF m = <<>> THEN [sign |-> 1, m |-> <<>>, e |-> 0]
    ELSE IF BigIsOdd(m) THEN [sign |-> sign, m |-> m, e |-> e]
    ELSE IF m[1] = 0 THEN Double(sign, Tail(m), e + 15)
    ELSE Double(sign, BigShr(m, 1), e + 1)

\* the double nearest to sign * (m + f) * 2^e, ties to even, where the
\* fraction f is 0 or, when sticky, some number with 0 < f < 1; with sticky
\* m has 54 bits or more
RoundToDouble(sign, m, e, sticky) ==
    LET drop == BigBitLen(m) - 53
    IN  IF drop <= 0 THEN Double(sign, m, e)
        ELSE LET q == BigShr(m, drop)
                 r == BigSub(m, BigShl(q, drop))
                 c == BigCmp(r, BigShl(<<1>>, drop - 1))
                 up == \/ c > 0
                       \/ c = 0 /\ sticky
                       \/ c = 0 /\ ~sticky /\ BigIsOdd(q)
             IN  Double(sign, IF up THEN BigAdd(q, <<1>>) ELSE q, e + drop)

\* the integer n, |n| < 2^31, as a double
DoubleOf(n) == Double(IF n < 0 THEN -1 ELSE 1, BigOf(Abs(n)), 0)

DNeg(x) == IF x.m = <<>> THEN x ELSE [x EXCEPT !.sign = -x.sign]

DAbs(x) == [x EXCEPT !.sign = 1]

\* -1, 0, 1 as x < y, x = y, x > y
DCmp(x, y) ==
    LET e  == Min(x.e, y.e)
        xs == IF x.m = <<>> THEN 0 ELSE x.sign
        ys == IF y.m = <<>> THEN 0 ELSE y.sign
    IN  IF xs # ys THEN (IF xs < ys THEN -1 ELSE 1)
        ELSE xs * BigCmp(BigShl(x.m, x.e - e), BigShl(y.m, y.e - e))

\* x + y, x - y, x * y, x / y of the code, each rounded once
DAdd(x, y) ==
    LET e  == Min(x.e, y.e)
        xm == BigShl(x.m, x.e - e)
        ym == BigShl(y.m, y.e - e)
        c  == BigCmp(xm, ym)
    IN  IF x.m = <<>> THEN y
        ELSE IF y.m = <<>> THEN x
        ELSE IF x.sign = y.sign
        THEN RoundToDouble(x.sign, BigAdd(xm, ym), e, FALSE)
        ELSE IF c >= 0
        THEN RoundToDouble(x.sign, BigSub(xm, ym), e, FALSE)
        ELSE RoundToDouble(y.sign, BigSub(ym, xm), e, FALSE)

DSub(x, y) == DAdd(x, DNeg(y))

DMul(x, y) ==
    RoundToDouble(x.sign * y.sign, BigMul(x.m, y.m), x.e + y.e, FALSE)

DDiv(x, y) ==
    LET k  == 57 + BigBitLen(y.m) - BigBitLen(x.m)
        qr == BigDivMod(BigShl(x.m, k), y.m)
    IN  IF x.m = <<>> THEN x
        ELSE RoundToDouble(x.sign * y.sign, qr.q, x.e - y.e - k,
                           qr.r # <<>>)

----------------------------------------------------------------------------
(* Scene2: pixel and complex coordinates of the iteration overlay *)

CANVAS_SIZE == 800

\* the literals -0.6 and 1.3: the doubles nearest to 6/10 and 13/10
CENTER_X == DDiv(DoubleOf(-6), DoubleOf(10))

CENTER_Y == DoubleOf(0)

ZOOM == DDiv(DoubleOf(13), DoubleOf(10))

\* scale = 4 / (ZOOM * CANVAS_SIZE)
scene2Scale == DDiv(DoubleOf(4), DMul(ZOOM, DoubleOf(CANVAS_SIZE)))

\* CANVAS_SIZE / 2
scene2Half == DDiv(DoubleOf(CANVAS_SIZE), DoubleOf(2))

\* Scene2's pixelToComplex(pixelX, pixelY)
scene2PixelToComplex(pixelX, pixelY) ==
    [re |-> DAdd(CENTER_X, DMul(DSub(pixelX, scene2Half), scene2Scale)),
     im |-> DAdd(CENTER_Y, DMul(DSub(pixelY, scene2Half), scene2Scale))]

\* a variant of complexToPixel: CANVAS_SIZE / 2 is not added
scene2ComplexToPixel_noOffset(z) ==
    [x |-> DDiv(DSub(z.re, CENTER_X), scene2Scale),
     y |-> DDiv(DSub(z.im, CENTER_Y), scene2Scale)]

\* Scene2's complexToPixel(z)
scene2ComplexToPixel(z) ==
    [x |-> DAdd(DDiv(DSub(z.re, CENTER_X), scene2Scale), scene2Half),
     y |-> DAdd(DDiv(DSub(z.im, CENTER_Y), scene2Scale), scene2Half)]

\* the pixel coordinates and the complex coordinates the functions are
\* called with: canvas corners, centre and points between; points of the
\* plane the canvas shows
PixelCoordinates == {0, 1, 8, 9, 24, 400, 556, 800}

ComplexCoordinates ==
    { DoubleOf(0), CENTER_X, DDiv(DoubleOf(1), DoubleOf(4)),
      DDiv(DoubleOf(1), DoubleOf(2)), DoubleOf(1), DoubleOf(-1),
      DoubleOf(-2), DDiv(DoubleOf(-7), DoubleOf(4)) }

CoordinateCalls ==
    { [kind |-> "pixel", x |-> DoubleOf(px), y |-> DoubleOf(py)] :
        px \in PixelCoordinates, py \in PixelCoordinates }
    \cup
    { [kind |-> "complex", re |-> re, im |-> im] :
        re \in ComplexCoordinates, im \in ComplexCoordinates }

InitCoordinates ==
    /\ Constructed
    /\ OthersUnmounted
    /\ message = Null
    /\ data = Null
    /\ call \in CoordinateCalls
    /\ returned = Null
    /\ eventBudget = 0

\* complexToPixel(pixelToComplex(pixelX, pixelY))
PixelRoundTrip ==
    /\ call.kind = "pixel"
    /\ returned = Null
    /\ LET z == scene2PixelToComplex(call.x, call.y)
       IN  returned' = [there |-> z, back |-> scene2ComplexToPixel(z)]
    /\ UNCHANGED <<call, message, data, otherVars, sceneVars, canvasVars, workerVars,
                   histVars>>

\* pixelToComplex(complexToPixel(z))
ComplexRoundTrip ==
    /\ call.kind = "complex"
    /\ returned = Null
    /\ LET p == scene2ComplexToPixel([re |-> call.re, im |-> call.im])
       IN  returned' = [there |-> p, back |-> scene2PixelToComplex(p.x, p.y)]
    /\ UNCHANGED <<call, message, data, otherVars, sceneVars, canvasVars, workerVars,
                   histVars>>

NextCoordinates == PixelRoundTrip \/ ComplexRoundTrip

SpecCoordinates == InitCoordinates /\ [][NextCoordinates]_vars

\* |x - y| <= 2^k
WithinPow2(x, y, k) == DCmp(DAbs(DSub(x, y)), Double(1, <<1>>, k)) <= 0

\* C16 as stated: complexToPixel is the exact inverse of pixelToComplex:
\* the round trip from a pixel gives the pixel back and the round trip from a
\* complex point gives the point back.
C16_RoundTripIsExact ==
    returned # Null =>
        IF call.kind = "pixel"
        THEN returned.back = [x |-> call.x, y |-> call.y]
        ELSE returned.back = [re |-> call.re, im |-> call.im]

\* C16 as the code has it: in the doubles the code computes the round trip
\* from a pixel of the canvas comes back to within 2^-44 of a pixel in each
\* coordinate, and the round trip from a complex point the canvas shows to
\* within 2^-51 in each coordinate.
C16_RoundTripWithinRounding ==
    returned # Null =>
        IF call.kind = "pixel"
        THEN /\ WithinPow2(returned.back.x, call.x, -44)
             /\ WithinPow2(returned.back.y, call.y, -44)
        ELSE /\ WithinPow2(returned.back.re, call.re, -51)
             /\ WithinPow2(returned.back.im, call.im, -51)

\* the round trip from pixel (0, 8) has come back 2^-44 beside the pixel in
\* both coordinates
C16_RoundTripOffByRounding ==
    /\ returned # Null
    /\ call.kind = "pixel"
    /\ call.x = DoubleOf(0)
    /\ call.y = DoubleOf(8)
    /\ returned.back = [x |-> Double(1, <<1>>, -44),
                        y |-> DAdd(DoubleOf(8), Double(1, <<1>>, -44))]

----------------------------------------------------------------------------
(* The MandelbrotCanvas that keeps isDragging as React state and adds its *)
(* wheel listener in an effect.  The setState of a pointer handler is     *)
(* committed, and the effect that depends on it run, before the browser   *)
(* dispatches the next event.                                             *)

\* user events per behaviour of SpecVariant
MaxVariantEvents == 4

\* the deltaY of a wheel event: a notch up, a notch down, a fast scroll
VariantWheelDeltas == {-100, 100, 400}

\* base^k for an integer k
RECURSIVE PowN(_, _)
PowN(base, k) ==
    IF k = 0 THEN Num(1)
    ELSE IF k < 0 THEN Inv(PowN(base, -k))
    ELSE Mul(base, PowN(base, k - 1))

\* the zoom factor of the wheel handler, for a deltaY that is a multiple of
\* 100: Math.pow(1.15, -Math.max(-3, Math.min(3, deltaY / 100)))
variantZoomFactor(deltaY) ==
    LET normalizedDelta == Max(-3, Min(3, deltaY \div 100))
    IN  PowN(Rat(23, 20), -normalizedDelta)

\* a variant of the wheel listener effect: the listener is added whatever
\* isDragging is
wheelListenerEffect_alwaysAdds(isDragging) == TRUE

\* the wheel listener effect with its cleanup: whether the canvas has the
\* wheel listener after the effect ran for isDragging
wheelListenerEffect(isDragging) == ~isDragging

\* the record of a user event on the canvas: the callbacks the handlers
\* called, whether a primary press was waiting for its release before the
\* event, and the kind of the event before it
VariantEvent(kind, arg, onZoom, onPan) ==
    [seq |-> variantCanvas.last.seq + 1, kind |-> kind, arg |-> arg,
     onZoom |-> onZoom, onPan |-> onPan,
     pressed |-> variantCanvas.pressed,
     prevKind |-> variantCanvas.last.kind]

\* the canvas after a handler: the setState is committed and the wheel
\* listener effect runs again if isDragging changed
VariantCommit(isDragging, lastPos, pressed, e) ==
    /\ variantCanvas.last.seq < MaxVariantEvents
    /\ variantCanvas' =
           [isDragging |-> isDragging,
            lastMousePosRef |-> lastPos,
            wheelListener |->
                IF isDragging # variantCanvas.isDragging
                THEN wheelListenerEffect(isDragging)
                ELSE variantCanvas.wheelListener,
            pressed |-> pressed,
            last |-> e]
    /\ UNCHANGED <<sceneVars, canvasVars, workerVars, message, data, call,
                   returned, scene2, scene6, scene5, scene3,
                   histVars>>

\* handleMouseDown
VariantMouseDown(x, y, button) ==
    IF button = 0
    THEN VariantCommit(TRUE, [x |-> x, y |-> y], TRUE,
                       VariantEvent("mouseDown", button, Null, Null))
    ELSE VariantCommit(variantCanvas.isDragging,
                       variantCanvas.lastMousePosRef, variantCanvas.pressed,
                       VariantEvent("mouseDown", button, Null, Null))

\* handleMouseUp
VariantMouseUp(button) ==
    VariantCommit(FALSE, Null, FALSE,
                  VariantEvent("mouseUp", button, Null, Null))

\* handleMouseLeave
VariantMouseLeave ==
    IF variantCanvas.lastMousePosRef # Null
    THEN VariantCommit(FALSE, Null, FALSE,
                       VariantEvent("mouseLeave", 0, Null, Null))
    ELSE VariantCommit(variantCanvas.isDragging, Null, FALSE,
                       VariantEvent("mouseLeave", 0, Null, Null))

\* handleMouseMove, no onMouseMovePoint supplied
VariantMouseMove(x, y) ==
    LET lastPos == variantCanvas.lastMousePosRef
    IN  IF lastPos # Null
        THEN LET deltaX == x - lastPos.x
                 deltaY == y - lastPos.y
             IN  VariantCommit(variantCanvas.isDragging, [x |-> x, y |-> y],
                     variantCanvas.pressed,
                     VariantEvent("mouseMove", 0, Null,
                         IF deltaX # 0 \/ deltaY # 0
                         THEN [deltaX |-> deltaX, deltaY |-> deltaY]
                         ELSE Null))
        ELSE VariantCommit(variantCanvas.isDragging, lastPos,
                           variantCanvas.pressed,
                           VariantEvent("mouseMove", 0, Null, Null))

\* a wheel event on the canvas: handleWheel runs if the listener is there
VariantWheel(x, y, deltaY) ==
    VariantCommit(variantCanvas.isDragging, variantCanvas.lastMousePosRef,
        variantCanvas.pressed,
        VariantEvent("wheel", deltaY,
            IF variantCanvas.wheelListener
            THEN [px |-> x, py |-> y, zoomFactor |-> variantZoomFactor(deltaY)]
            ELSE Null,
            Null))

\* the canvas after its mount: the effect has added the wheel listener
InitVariant ==
    /\ Constructed
    /\ message = Null
    /\ data = Null
    /\ call = Null
    /\ returned = Null
    /\ scene2 = Null
    /\ scene6 = Null
    /\ scene5 = Null
    /\ scene3 = Null
    /\ variantCanvas =
           [isDragging |-> FALSE, lastMousePosRef |-> Null,
            wheelListener |-> wheelListenerEffect(FALSE), pressed |-> FALSE,
            last |-> [seq |-> 0, kind |-> "none", arg |-> 0, onZoom |-> Null,
                      onPan |-> Null, pressed |-> FALSE, prevKind |-> "none"]]
    /\ eventBudget = 0

NextVariant ==
    \/ \E p \in Pointers, button \in Buttons : VariantMouseDown(p.x, p.y, button)
    \/ \E button \in Buttons : VariantMouseUp(button)
    \/ VariantMouseLeave
    \/ \E p \in Pointers : VariantMouseMove(p.x, p.y)
    \/ \E p \in Pointers, deltaY \in VariantWheelDeltas : VariantWheel(p.x, p.y, deltaY)

SpecVariant == InitVariant /\ [][NextVariant]_vars

----------------------------------------------------------------------------
(* Scene2: the inspection of a point c.  Its MandelbrotCanvas is given    *)
(* onMouseDownPoint, onMouseMovePoint and onMouseUpPoint, a viewport that *)
(* is one module-level object, and handlers of zoom and pan that do       *)
(* nothing.                                                              *)

\* user events per behaviour of SpecScene2
MaxScene2Events == 4

MAX_ITERATIONS == 200

\* pointer positions on Scene2's canvas
Scene2Pointers == {[x |-> 400, y |-> 400], [x |-> 556, y |-> 24]}

\* digit keys: Scene2 and a scene without a canvas
Scene2Keys == {2, 9}

\* the module-level viewport object
scene2Viewport ==
    [centerX |-> CENTER_X, centerY |-> CENTER_Y, zoom |-> ZOOM,
     width |-> CANVAS_SIZE, height |-> CANVAS_SIZE]

\* Scene2's handleZoom and handlePan: () => { }
scene2HandleZoom(v, pixelX, pixelY, zoomFactor) == v

scene2HandlePan(v, deltaPixelX, deltaPixelY) == v

\* handleMouseDownPoint and handleMouseMovePoint: the new selectedC
handleMouseDownPoint(pixelX, pixelY) ==
    scene2PixelToComplex(DoubleOf(pixelX), DoubleOf(pixelY))

handleMouseMovePoint(pixelX, pixelY) ==
    scene2PixelToComplex(DoubleOf(pixelX), DoubleOf(pixelY))

\* a variant of handleMouseUpPoint: the selected point stays
handleMouseUpPoint_keepsPoint(selectedC) == selectedC

\* handleMouseUpPoint: the new selectedC
handleMouseUpPoint(selectedC) == Null

\* a variant of the handleMouseMove below: the move of a drag pans as well
handleMouseMoveInspect_alsoPans(dragging, lastPos, x, y) ==
    IF dragging
    THEN [onMouseMovePoint |-> TRUE,
          onPan |-> lastPos # Null /\ (x - lastPos.x # 0 \/ y - lastPos.y # 0),
          deltaX |-> IF lastPos # Null THEN x - lastPos.x ELSE 0,
          deltaY |-> IF lastPos # Null THEN y - lastPos.y ELSE 0,
          lastMousePosRef |-> [x |-> x, y |-> y]]
    ELSE [onMouseMovePoint |-> FALSE, onPan |-> FALSE, deltaX |-> 0,
          deltaY |-> 0, lastMousePosRef |-> lastPos]

\* handleMouseMove with onMouseMovePoint supplied: which callbacks are
\* invoked, and lastMousePosRef.current afterwards
handleMouseMoveInspect(dragging, lastPos, x, y) ==
    IF dragging
    THEN [onMouseMovePoint |-> TRUE, onPan |-> FALSE, deltaX |-> 0,
          deltaY |-> 0, lastMousePosRef |-> [x |-> x, y |-> y]]
    ELSE [onMouseMovePoint |-> FALSE, onPan |-> FALSE, deltaX |-> 0,
          deltaY |-> 0, lastMousePosRef |-> lastPos]

\* the record of a user event in Scene2: the callbacks invoked, selectedC
\* before the event and the kind of the event before it
Scene2Event(kind, arg, onPan, onZoom) ==
    [seq |-> scene2.last.seq + 1, kind |-> kind, arg |-> arg,
     onPan |-> onPan, onZoom |-> onZoom,
     selectedC |-> scene2.selectedC, prevKind |-> scene2.last.kind]

Scene2NoEvent ==
    [seq |-> 0, kind |-> "none", arg |-> 0, onPan |-> FALSE,
     onZoom |-> FALSE, selectedC |-> Null, prevKind |-> "none"]

\* Scene2 and its canvas right after the mount: the debounce timer pending
Scene2Mounted(e) ==
    [mounted |-> TRUE, selectedC |-> Null, viewport |-> scene2Viewport,
     maxIterations |-> MAX_ITERATIONS, isDraggingRef |-> FALSE,
     lastMousePosRef |-> Null, renderIdRef |-> 0, timers |-> 1,
     posted |-> 0, last |-> e]

\* Scene2 after a handler: the canvas sets a new debounce timer, clearing the
\* pending one, if its viewport or maxIterations changed
Scene2Commit(selectedC, v, refs, e) ==
    /\ scene2.mounted
    /\ scene2.last.seq < MaxScene2Events
    /\ scene2' = [scene2 EXCEPT
                     !.selectedC = selectedC,
                     !.viewport = v,
                     !.isDraggingRef = refs.isDraggingRef,
                     !.lastMousePosRef = refs.lastMousePosRef,
                     !.timers = IF v # scene2.viewport THEN 1 ELSE @,
                     !.last = e]
    /\ UNCHANGED <<sceneVars, canvasVars, workerVars, message, data, call,
                   returned, variantCanvas, scene6, scene5, scene3,
                   histVars>>

\* handleWheel -> onZoom = Scene2's handleZoom
Scene2Wheel(x, y, deltaY) ==
    Scene2Commit(scene2.selectedC,
                 scene2HandleZoom(scene2.viewport, x, y, wheelZoomFactor(deltaY)),
                 [isDraggingRef |-> scene2.isDraggingRef,
                  lastMousePosRef |-> scene2.lastMousePosRef],
                 Scene2Event("wheel", deltaY, FALSE, TRUE))

\* handleMouseDown -> onMouseDownPoint
Scene2MouseDown(x, y, button) ==
    Scene2Commit(IF button = 0 THEN handleMouseDownPoint(x, y)
                 ELSE scene2.selectedC,
                 scene2.viewport,
                 handleMouseDown(scene2.isDraggingRef, scene2.lastMousePosRef,
                                 x, y, button),
                 Scene2Event("mouseDown", button, FALSE, FALSE))

\* handleMouseUp -> onMouseUpPoint
Scene2MouseUp ==
    Scene2Commit(handleMouseUpPoint(scene2.selectedC), scene2.viewport,
                 handleMouseUp(scene2.isDraggingRef, scene2.lastMousePosRef),
                 Scene2Event("mouseUp", 0, FALSE, FALSE))

\* handleMouseLeave -> onMouseUpPoint if a drag was in progress
Scene2MouseLeave ==
    Scene2Commit(IF scene2.isDraggingRef
                 THEN handleMouseUpPoint(scene2.selectedC)
                 ELSE scene2.selectedC,
                 scene2.viewport,
                 handleMouseLeave(scene2.isDraggingRef, scene2.lastMousePosRef),
                 Scene2Event("mouseLeave", 0, FALSE, FALSE))

\* handleMouseMove -> onMouseMovePoint, or onPan = Scene2's handlePan
Scene2MouseMove(x, y) ==
    LET r == handleMouseMoveInspect(scene2.isDraggingRef,
                                    scene2.lastMousePosRef, x, y)
    IN  Scene2Commit(IF r.onMouseMovePoint THEN handleMouseMovePoint(x, y)
                     ELSE scene2.selectedC,
                     IF r.onPan
                     THEN scene2HandlePan(scene2.viewport, r.deltaX, r.deltaY)
                     ELSE scene2.viewport,
                     [isDraggingRef |-> scene2.isDraggingRef,
                      lastMousePosRef |-> r.lastMousePosRef],
                     Scene2Event("mouseMove", 0, r.onPan, FALSE))

\* the debounce timer of Scene2's canvas expires: render() posts a request
Scene2TimerFires ==
    /\ scene2.mounted
    /\ scene2.timers > 0
    /\ scene2' = [scene2 EXCEPT !.timers = @ - 1,
                                !.renderIdRef = nextRenderId(@),
                                !.posted = @ + 1]
    /\ UNCHANGED <<sceneVars, canvasVars, workerVars, message, data, call,
                   returned, variantCanvas, scene6, scene5, scene3,
                   histVars>>

\* a digit key: App shows Scene2 or a scene without a canvas; Scene2 and its
\* canvas are unmounted when the scene changes, and mounted anew by key 2
Scene2KeyDown(key) ==
    /\ scene2.last.seq < MaxScene2Events
    /\ LET e == Scene2Event("keyDown", key, FALSE, FALSE)
       IN  scene2' =
               IF key = 2
               THEN IF scene2.mounted THEN [scene2 EXCEPT !.last = e]
                    ELSE Scene2Mounted(e)
               ELSE [Scene2Mounted(e) EXCEPT !.mounted = FALSE,
                                             !.timers = 0]
    /\ UNCHANGED <<sceneVars, canvasVars, workerVars, message, data, call,
                   returned, variantCanvas, scene6, scene5, scene3,
                   histVars>>

InitScene2 ==
    /\ Constructed
    /\ message = Null
    /\ data = Null
    /\ call = Null
    /\ returned = Null
    /\ variantCanvas = Null
    /\ scene6 = Null
    /\ scene5 = Null
    /\ scene3 = Null
    /\ scene2 = Scene2Mounted(Scene2NoEvent)
    /\ eventBudget = 0

NextScene2 ==
    \/ \E p \in Scene2Pointers, deltaY \in WheelDeltas : Scene2Wheel(p.x, p.y, deltaY)
    \/ \E p \in Scene2Pointers, button \in Buttons : Scene2MouseDown(p.x, p.y, button)
    \/ Scene2MouseUp
    \/ Scene2MouseLeave
    \/ \E p \in Scene2Pointers : Scene2MouseMove(p.x, p.y)
    \/ Scene2TimerFires
    \/ \E key \in Scene2Keys : Scene2KeyDown(key)

SpecScene2 == InitScene2 /\ [][NextScene2]_vars

\* C22: with onMouseMovePoint supplied, no event of a drag invokes onPan;
\* Scene2's viewport and maxIterations never change, whatever the pointer
\* and wheel events; so each mount of the canvas has exactly one render
\* request, the one of the timer set on mount, issued or still pending.
C22_InspectionNeverPans ==
    /\ ~scene2.last.onPan
    /\ scene2.viewport = scene2Viewport
    /\ scene2.maxIterations = MAX_ITERATIONS
    /\ scene2.mounted => scene2.renderIdRef + scene2.timers = 1
    /\ scene2.posted = scene2.renderIdRef
    /\ ~scene2.mounted => scene2.timers = 0

\* the pointer was moved to another place during a drag, after the request
\* of the mount was issued
C22_DraggedAfterRequest ==
    /\ scene2.last.kind = "mouseMove"
    /\ scene2.last.prevKind = "mouseDown"
    /\ scene2.isDraggingRef
    /\ scene2.selectedC # scene2.last.selectedC
    /\ scene2.renderIdRef = 1
    /\ scene2.timers = 0

\* C23: in Scene2 selectedC is non-null exactly while a drag is in progress
\* on the canvas: a primary press sets it, a move sets it again only during
\* a drag, a release or the pointer leaving clears it; it is the point under
\* the pointer at the last press or move of the drag.
C23_SelectedExactlyWhileDragging ==
    /\ scene2.selectedC # Null <=> scene2.isDraggingRef
    /\ scene2.isDraggingRef =>
           scene2.selectedC =
               scene2PixelToComplex(DoubleOf(scene2.lastMousePosRef.x),
                                    DoubleOf(scene2.lastMousePosRef.y))
    /\ (scene2.last.kind = "mouseMove" /\ scene2.last.selectedC = Null) =>
           scene2.selectedC = Null

\* a drag that moved the point was ended by a release
C23_DragReleased ==
    /\ scene2.last.kind = "mouseUp"
    /\ scene2.last.prevKind = "mouseMove"
    /\ scene2.last.selectedC # Null
    /\ scene2.selectedC = Null
    /\ ~scene2.isDraggingRef


(***************************************************************************)
(* Scene6: the animation of the expansion of z_n                           *)
(***************************************************************************)

\* the keydown events of one behaviour of Scene6
MaxScene6Events == 3

MAX_N == 12

\* the keys, each the sequence of the characters of e.key
Scene6Keys ==
    {<<"F", "1">>, <<"F", "2">>, <<"F", "3">>, <<"F", "5">>, <<"F", "8">>,
     <<"F", "9">>, <<"F", "1", "2">>, <<"F">>, <<"a">>}

DecimalDigits == {"0", "1", "2", "3", "4", "5", "6", "7", "8", "9"}

\* the value of a decimal digit
DigitValue(ch) ==
    CASE ch = "0" -> 0 [] ch = "1" -> 1 [] ch = "2" -> 2 [] ch = "3" -> 3
      [] ch = "4" -> 4 [] ch = "5" -> 5 [] ch = "6" -> 6 [] ch = "7" -> 7
      [] ch = "8" -> 8 [] ch = "9" -> 9

RECURSIVE parseIntFrom(_, _, _)
\* the digits of chars from position i on, read in base 10 after acc
parseIntFrom(chars, i, acc) ==
    IF i > Len(chars) \/ chars[i] \notin DecimalDigits
    THEN acc
    ELSE parseIntFrom(chars, i + 1, acc * 10 + DigitValue(chars[i]))

\* parseInt(chars, 10): the number of the leading digits; Null (NaN) when
\* there is none
parseInt(chars) ==
    IF chars = <<>> \/ chars[1] \notin DecimalDigits
    THEN Null
    ELSE [value |-> parseIntFrom(chars, 1, 0)]

\* the powers of the terms of the product of two polynomials; a polynomial
\* is the set of the powers of its terms: the coefficients of every z_n
\* are positive, so no term of a product or a sum has coefficient 0
multiplyPolynomials(p1, p2) == {t1 + t2 : t1 \in p1, t2 \in p2}

addPolynomials(p1, p2) == p1 \cup p2

RECURSIVE generatePolynomials(_)
\* allPolynomials[i]: z_0 = 0, z_1 = c, z_i = z_(i-1)^2 + c
generatePolynomials(i) ==
    IF i = 0 THEN {}
    ELSE IF i = 1 THEN {1}
    ELSE LET prev == generatePolynomials(i - 1)
         IN  addPolynomials(multiplyPolynomials(prev, prev), {1})

\* targetN is Null or a record with the number
prevPolynomial(targetN) ==
    IF targetN = Null \/ targetN.value < 2 THEN {}
    ELSE generatePolynomials(targetN.value - 1)

\* multiplicationGrid.length: one cell for each pair of terms of z_(n-1)
multiplicationGridLength(targetN) ==
    Cardinality(prevPolynomial(targetN)) * Cardinality(prevPolynomial(targetN))

\* gridByColumn.length: one column for each power of a cell
gridByColumnLength(targetN) ==
    Cardinality(multiplyPolynomials(prevPolynomial(targetN),
                                    prevPolynomial(targetN)))

\* window.setTimeout(() => setStage(stage) ..., delay), its id stored in
\* animationRef.current
setTimeout(s, stage) ==
    [s EXCEPT !.timers = @ \cup {[id |-> s.nextId, sets |-> stage]},
              !.animationRef = s.nextId,
              !.nextId = @ + 1]

\* a variant of clearAnimation: the ref is reset, the timer is left pending
clearAnimation_keepsTimer(s) ==
    IF s.animationRef # 0
    THEN [s EXCEPT !.animationRef = 0]
    ELSE s

\* clearTimeout of the timer in animationRef.current, which may have fired;
\* the ids of timers are positive, and 0 stands for null in animationRef
clearAnimation(s) ==
    IF s.animationRef # 0
    THEN [s EXCEPT !.timers = {tm \in @ : tm.id # s.animationRef},
                   !.animationRef = 0]
    ELSE s

startAnimation(s, n) ==
    LET cleared == clearAnimation(s)
    IN  IF n < 2 \/ n > MAX_N
        THEN cleared
        ELSE setTimeout([cleared EXCEPT !.targetN = [value |-> n],
                                        !.stage = "show-formula",
                                        !.gridRevealIndex = 0,
                                        !.collectRevealIndex = 0],
                        "expand-left")

\* the stage the callback of a timer of startAnimation sets a timer for
NestedStage(stage) ==
    CASE stage = "expand-left" -> "expand-right"
      [] stage = "expand-right" -> "show-grid"
      [] stage = "show-grid" -> "fill-grid"

\* the callback of a timer: setStage, and the nested setTimeout if any
timerCallback(s, stage) ==
    IF stage \in {"expand-left", "expand-right", "show-grid"}
    THEN setTimeout([s EXCEPT !.stage = stage], NestedStage(stage))
    ELSE [s EXCEPT !.stage = stage]

\* the render after a handler that began in state old and left state s: of
\* the fill-grid and the collect-terms effect whose dependencies changed,
\* first the cleanups of the last run (clearAnimation, when that run was in
\* the effect's stage), then the effects themselves
Scene6Effects(old, s) ==
    LET fillChanged ==
            \/ old.stage # s.stage
            \/ multiplicationGridLength(old.targetN)
                   # multiplicationGridLength(s.targetN)
        collectChanged ==
            \/ old.stage # s.stage
            \/ gridByColumnLength(old.targetN) # gridByColumnLength(s.targetN)
        a == IF fillChanged /\ old.stage = "fill-grid"
             THEN clearAnimation(s) ELSE s
        b == IF collectChanged /\ old.stage = "collect-terms"
             THEN clearAnimation(a) ELSE a
        c == IF fillChanged /\ s.stage = "fill-grid"
             THEN setTimeout([b EXCEPT !.gridRevealIndex =
                                  multiplicationGridLength(s.targetN)],
                             "collect-terms")
             ELSE b
    IN  IF collectChanged /\ s.stage = "collect-terms"
        THEN setTimeout([c EXCEPT !.collectRevealIndex =
                             gridByColumnLength(s.targetN) + 1],
                        "final-result")
        ELSE c

\* handleKeyDown: F2 to F8 start the animation for that n
handleKeyDown(s, key) ==
    IF key # <<>> /\ key[1] = "F" /\ Len(key) <= 2
    THEN LET num == parseInt(Tail(key))
         IN  IF num # Null /\ num.value >= 2 /\ num.value <= 8
             THEN startAnimation(s, num.value)
             ELSE s
    ELSE s

\* Scene6 as mounted: idle, no timer
Scene6Mounted ==
    [targetN |-> Null, stage |-> "idle", gridRevealIndex |-> 0,
     collectRevealIndex |-> 0, animationRef |-> 0, timers |-> {},
     nextId |-> 1, events |-> 0,
     last |-> [kind |-> "none", key |-> <<>>, stage |-> "idle",
               started |-> Null, startedIn |-> "idle"]]

\* a keydown event on the window
Scene6KeyDown(key) ==
    /\ scene6.events < MaxScene6Events
    /\ LET handled == handleKeyDown(scene6, key)
           e == [kind |-> "keyDown", key |-> key, stage |-> scene6.stage,
                 started |-> IF handled.nextId # scene6.nextId
                             THEN parseInt(Tail(key))
                             ELSE scene6.last.started,
                 startedIn |-> IF handled.nextId # scene6.nextId
                               THEN scene6.stage
                               ELSE scene6.last.startedIn]
       IN  scene6' = [Scene6Effects(scene6, handled)
                          EXCEPT !.events = @ + 1, !.last = e]
    /\ UNCHANGED <<sceneVars, canvasVars, workerVars, message, data, call,
                   returned, variantCanvas, scene2, scene5, scene3,
                   histVars>>

\* a pending timer of the animation expires
Scene6TimerFires ==
    /\ \E tm \in scene6.timers :
           LET fired == [scene6 EXCEPT !.timers = @ \ {tm}]
               e == [scene6.last EXCEPT !.kind = "timer",
                                        !.stage = scene6.stage]
           IN  scene6' = [Scene6Effects(scene6, timerCallback(fired, tm.sets))
                              EXCEPT !.last = e]
    /\ UNCHANGED <<sceneVars, canvasVars, workerVars, message, data, call,
                   returned, variantCanvas, scene2, scene5, scene3,
                   histVars>>

InitScene6 ==
    /\ Constructed
    /\ message = Null
    /\ data = Null
    /\ call = Null
    /\ returned = Null
    /\ variantCanvas = Null
    /\ scene2 = Null
    /\ scene6 = Scene6Mounted
    /\ scene5 = Null
    /\ scene3 = Null
    /\ eventBudget = 0

NextScene6 ==
    \/ \E key \in Scene6Keys : Scene6KeyDown(key)
    \/ Scene6TimerFires

SpecScene6 == InitScene6 /\ [][NextScene6]_vars

\* a timer that is pending and not cleared expires after its delay
SpecScene6Fair == SpecScene6 /\ WF_vars(Scene6TimerFires)

\* C30: after the last of the key presses F2 to F8, in whatever stage of
\* the animation before it was made, the animation it started eventually
\* reaches the final-result stage for its n and stays there.
C30_AnimationCompletes ==
    <>[](scene6.last.started # Null =>
             /\ scene6.stage = "final-result"
             /\ scene6.targetN = scene6.last.started)

\* the animation started by the last key press completes when that press
\* was made in a stage other than fill-grid and collect-terms
AnimationCompletesUnlessCleared ==
    <>[](/\ scene6.last.started # Null
         /\ scene6.last.startedIn \notin {"fill-grid", "collect-terms"}
         => /\ scene6.stage = "final-result"
            /\ scene6.targetN = scene6.last.started)

\* F3 was pressed in the fill-grid or the collect-terms stage of the
\* animation of another n: the animation of z_3 is at its first stage with
\* no timer left to advance it
C30_StuckAtFormula ==
    /\ scene6.last.kind = "keyDown"
    /\ scene6.last.key = <<"F", "3">>
    /\ scene6.last.stage \in {"fill-grid", "collect-terms"}
    /\ scene6.targetN = [value |-> 3]
    /\ scene6.stage = "show-formula"
    /\ scene6.timers = {}
    /\ scene6.animationRef = 0

\* the stages of an animation in the order of AnimationStage
Scene6StageOrder ==
    <<"idle", "show-formula", "expand-left", "expand-right", "show-grid",
      "fill-grid", "collect-terms", "final-result">>

StageIndex(stage) == CHOOSE i \in DOMAIN Scene6StageOrder : Scene6StageOrder[i] = stage

\* C31: the stage of Scene6 changes only to the next stage of the fixed
\* order, by the expiry of a timer, or to show-formula, by a key press F2 to
\* F8; so no stage is skipped or revisited within one animation; and at
\* most one timer is pending at any time.
C31_StagesInOrder ==
    [][ /\ Cardinality(scene6'.timers) <= 1
        /\ scene6'.last.kind = "timer" =>
               /\ scene6.stage # "idle"
               /\ StageIndex(scene6'.stage) = StageIndex(scene6.stage) + 1
        /\ scene6'.last.kind = "keyDown" =>
               \/ scene6'.stage = scene6.stage
               \/ /\ scene6'.stage = "show-formula"
                  /\ scene6'.last.key \in {<<"F", "2">>, <<"F", "3">>,
                                           <<"F", "5">>, <<"F", "8">>}
      ]_vars

\* a key press in the middle of an animation took the stage back to
\* show-formula, with the timer of the new animation the only one pending
C31_RestartedMidway ==
    /\ scene6.last.kind = "keyDown"
    /\ scene6.last.stage = "expand-right"
    /\ scene6.stage = "show-formula"
    /\ Cardinality(scene6.timers) = 1

(***************************************************************************)
(* Scene5: the animation of the recurrence of the Catalan numbers.  The    *)
(* numbers are doubles.  flyingNumbers, set from the layout of the DOM     *)
(* elements and read by the rendering only, is left out.                   *)
(***************************************************************************)

\* the keydown events of one behaviour of Scene5
MaxScene5Events == 2

NUM_CATALAN == 21

\* the first n Catalan numbers, n >= 1: C_0 = 1 and
\* next = (prev * 2 * (2 * i - 1)) / (i + 1); catalans[i] of the code is
\* element i + 1 of the sequence
RECURSIVE generateCatalanNumbers(_)
generateCatalanNumbers(n) ==
    IF n = 1 THEN <<DoubleOf(1)>>
    ELSE LET catalans == generateCatalanNumbers(n - 1)
             i == n - 1
             prev == catalans[i]
             next == DDiv(DMul(DMul(prev, DoubleOf(2)), DoubleOf(2 * i - 1)),
                          DoubleOf(i + 1))
         IN  IF Len(catalans) = i THEN Append(catalans, next) ELSE catalans

catalanNumbers == generateCatalanNumbers(NUM_CATALAN)

\* a variant of buildAnimationSteps: the second index is n - i
RECURSIVE buildAnimationSteps_pairsWithN(_, _)
buildAnimationSteps_pairsWithN(n, k) ==
    IF k = 0 THEN <<>>
    ELSE LET steps == buildAnimationSteps_pairsWithN(n, k - 1)
             i == k - 1
             j == n - i
             product == DMul(catalanNumbers[i + 1], catalanNumbers[j + 1])
             runningSum == IF steps = <<>> THEN DoubleOf(0)
                           ELSE steps[Len(steps)].runningSum
         IN  steps \o
             << [type |-> "show-pair", i |-> i, j |-> j, product |-> Null,
                 runningSum |-> Null],
                [type |-> "multiply", i |-> i, j |-> j, product |-> product,
                 runningSum |-> Null],
                [type |-> "add-to-sum", i |-> i, j |-> j, product |-> product,
                 runningSum |-> DAdd(runningSum, product)] >>

\* the steps of the pairs i = 0 .. k - 1 of buildAnimationSteps(n); Null
\* stands for a field the step does not have
RECURSIVE buildAnimationSteps(_, _)
buildAnimationSteps(n, k) ==
    IF k = 0 THEN <<>>
    ELSE LET steps == buildAnimationSteps(n, k - 1)
             i == k - 1
             j == n - 1 - i
             product == DMul(catalanNumbers[i + 1], catalanNumbers[j + 1])
             runningSum == IF steps = <<>> THEN DoubleOf(0)
                           ELSE steps[Len(steps)].runningSum
         IN  steps \o
             << [type |-> "show-pair", i |-> i, j |-> j, product |-> Null,
                 runningSum |-> Null],
                [type |-> "multiply", i |-> i, j |-> j, product |-> product,
                 runningSum |-> Null],
                [type |-> "add-to-sum", i |-> i, j |-> j, product |-> product,
                 runningSum |-> DAdd(runningSum, product)] >>

\* buildIntroSteps(n): ascending to the left boxes, then descending to the
\* right boxes
buildIntroSteps(n) ==
    [k \in 1..(2 * n) |->
        IF k <= n
        THEN [phase |-> "ascending", sourceIndex |-> k - 1,
              targetRow |-> k - 1, targetSide |-> "left"]
        ELSE [phase |-> "descending", sourceIndex |-> n - 1 - (k - n - 1),
              targetRow |-> k - n - 1, targetSide |-> "right"]]

\* totalSum: the products of the add-to-sum steps up to currentStepIndex,
\* added up from 0 in their order
RECURSIVE totalSumUpTo(_, _)
totalSumUpTo(animationSteps, s) ==
    IF s < 0 THEN DoubleOf(0)
    ELSE LET sum == totalSumUpTo(animationSteps, s - 1)
         IN  IF /\ s + 1 <= Len(animationSteps)
                /\ animationSteps[s + 1].type = "add-to-sum"
                /\ animationSteps[s + 1].product # Null
             THEN DAdd(sum, animationSteps[s + 1].product)
             ELSE sum

totalSum(s) == totalSumUpTo(s.animationSteps, s.currentStepIndex)

\* the UTF-16 code of a character of a key
CharCode(ch) ==
    IF ch \in DecimalDigits THEN 48 + DigitValue(ch)
    ELSE IF ch = "F" THEN 70
    ELSE 97

\* a <= b for strings, as JavaScript compares them
RECURSIVE StringLe(_, _)
StringLe(a, b) ==
    IF a = <<>> THEN TRUE
    ELSE IF b = <<>> THEN FALSE
    ELSE IF CharCode(Head(a)) # CharCode(Head(b))
    THEN CharCode(Head(a)) < CharCode(Head(b))
    ELSE StringLe(Tail(a), Tail(b))

\* the keys, each the sequence of the characters of e.key
Scene5Keys ==
    {<<"F", "1">>, <<"F", "2">>, <<"F", "3">>, <<"F", "4">>, <<"F", "5">>,
     <<"F", "6">>, <<"F", "7">>, <<"F", "8">>, <<"F", "9">>,
     <<"F", "1", "0">>, <<"F", "1", "1">>, <<"F", "1", "2">>, <<"a">>}

\* what a ref holds once the timer of its handle has expired or was
\* cleared: clearTimeout of such a handle does nothing
Stale == [stale |-> TRUE]

\* window.setTimeout(fn, delay) of the animation gen for n, fn with its
\* closure variable at idx; the handle is stored in the ref
scene5SetTimeout(s, ref, fn, idx, n, gen) ==
    LET tm == [gen |-> gen, fn |-> fn, idx |-> idx, n |-> n]
    IN  IF ref = "introAnimationRef"
        THEN [s EXCEPT !.timers = @ \cup {tm}, !.introAnimationRef = tm]
        ELSE [s EXCEPT !.timers = @ \cup {tm}, !.animationRef = tm]

\* startAnimation(n), the gen-th of the behaviour
scene5StartAnimation(s, n, gen) ==
    LET cleared == [s EXCEPT !.timers =
                        (@ \ {s.animationRef}) \ {s.introAnimationRef},
                             !.animationRef =
                                 IF @ = Null THEN Null ELSE Stale,
                             !.introAnimationRef =
                                 IF @ = Null THEN Null ELSE Stale]
    IN  scene5SetTimeout(
            [cleared EXCEPT !.targetN = [value |-> n],
                            !.animationSteps = buildAnimationSteps(n, n),
                            !.introSteps = buildIntroSteps(n),
                            !.currentStepIndex = -1,
                            !.introStepIndex = -1,
                            !.isAnimating = TRUE,
                            !.introPhase = "ascending"],
            "introAnimationRef", "animateIntro", 0, n, gen)

\* animateIntro with introIdx = idx
animateIntro(s, idx, n, gen) ==
    LET introAnimSteps == buildIntroSteps(n)
    IN  IF idx < Len(introAnimSteps)
        THEN IF /\ introAnimSteps[idx + 1].phase = "descending"
                /\ idx > 0
                /\ introAnimSteps[idx].phase = "ascending"
             THEN scene5SetTimeout([s EXCEPT !.introPhase = "descending"],
                                   "introAnimationRef", "pause", idx, n, gen)
             ELSE scene5SetTimeout([s EXCEPT !.introStepIndex = idx],
                                   "introAnimationRef", "animateIntro",
                                   idx + 1, n, gen)
        ELSE scene5SetTimeout([s EXCEPT !.introPhase = "done"],
                              "animationRef", "animateStep", 0, n, gen)

\* the callback of the pause before the descending phase
afterPause(s, idx, n, gen) ==
    scene5SetTimeout([s EXCEPT !.introStepIndex = idx],
                     "introAnimationRef", "animateIntro", idx + 1, n, gen)

\* animateStep with stepIndex = idx
animateStep(s, idx, n, gen) ==
    IF idx < Len(buildAnimationSteps(n, n))
    THEN scene5SetTimeout([s EXCEPT !.currentStepIndex = idx],
                          "animationRef", "animateStep", idx + 1, n, gen)
    ELSE [s EXCEPT !.isAnimating = FALSE]

\* handleKeyDown of Scene5: F2 to F12 start the animation
scene5HandleKeyDown(s, key, gen) ==
    IF \/ StringLe(<<"F", "2">>, key) /\ StringLe(key, <<"F", "9">>)
       \/ key = <<"F", "1", "0">>
       \/ key = <<"F", "1", "1">>
       \/ key = <<"F", "1", "2">>
    THEN scene5StartAnimation(s, parseInt(Tail(key)).value, gen)
    ELSE s

\* Scene5 as mounted
Scene5Mounted ==
    [targetN |-> Null, animationSteps |-> <<>>, currentStepIndex |-> -1,
     isAnimating |-> FALSE, introPhase |-> "none", introStepIndex |-> -1,
     introSteps |-> <<>>, animationRef |-> Null, introAnimationRef |-> Null,
     timers |-> {}, events |-> 0, lastKind |-> "none"]

\* a keydown event on the window
Scene5KeyDown(key) ==
    /\ scene5.events < MaxScene5Events
    /\ scene5' = [scene5HandleKeyDown(scene5, key, scene5.events + 1)
                     EXCEPT !.events = @ + 1, !.lastKind = "keyDown"]
    /\ UNCHANGED <<sceneVars, canvasVars, workerVars, message, data, call,
                   returned, variantCanvas, scene2, scene6, scene3,
                   histVars>>

\* a pending timer of Scene5 expires
Scene5TimerFires ==
    /\ \E tm \in scene5.timers :
           LET fired == [scene5 EXCEPT !.timers = @ \ {tm},
                                       !.animationRef =
                                           IF @ = tm THEN Stale ELSE @,
                                       !.introAnimationRef =
                                           IF @ = tm THEN Stale ELSE @,
                                       !.lastKind = "timer"]
           IN  scene5' =
                   CASE tm.fn = "animateIntro" ->
                            animateIntro(fired, tm.idx, tm.n, tm.gen)
                     [] tm.fn = "pause" ->
                            afterPause(fired, tm.idx, tm.n, tm.gen)
                     [] tm.fn = "animateStep" ->
                            animateStep(fired, tm.idx, tm.n, tm.gen)
    /\ UNCHANGED <<sceneVars, canvasVars, workerVars, message, data, call,
                   returned, variantCanvas, scene2, scene6, scene3,
                   histVars>>

InitScene5 ==
    /\ Constructed
    /\ message = Null
    /\ data = Null
    /\ call = Null
    /\ returned = Null
    /\ variantCanvas = Null
    /\ scene2 = Null
    /\ scene6 = Null
    /\ scene3 = Null
    /\ scene5 = Scene5Mounted
    /\ eventBudget = 0

NextScene5 ==
    \/ \E key \in Scene5Keys : Scene5KeyDown(key)
    \/ Scene5TimerFires

SpecScene5 == InitScene5 /\ [][NextScene5]_vars

\* the double x is an integer
IsInteger(x) == x.m = <<>> \/ x.e >= 0

\* C32: when the animation for n, 2 <= n <= 12, has finished, the sum of
\* the products C_i * C_(n-1-i), i = 0 .. n-1, shown as the total equals
\* catalanNumbers[n] of the multiplicative recurrence; and every number of
\* catalanNumbers is an integer.
C32_SumIsCatalan ==
    /\ \A k \in 1..NUM_CATALAN : IsInteger(catalanNumbers[k])
    /\ (scene5.targetN # Null /\ ~scene5.isAnimating) =>
           /\ scene5.targetN.value \in 2..12
           /\ scene5.currentStepIndex = 3 * scene5.targetN.value - 1
           /\ totalSum(scene5) = catalanNumbers[scene5.targetN.value + 1]

\* the animation for 12 has finished with the total 208012
C32_TwelveFinished ==
    /\ scene5.targetN = [value |-> 12]
    /\ ~scene5.isAnimating
    /\ totalSum(scene5) = DoubleOf(208012)

(***************************************************************************)
(* Scene3: the table of the expansions of z_n and its highlight animation  *)
(***************************************************************************)

\* the keydown events of one behaviour of Scene3
MaxScene3Events == 12

SCENE3_MAX_ITERATIONS == 8

HIGHLIGHT_COLORS ==
    <<"#ef4444", "#f97316", "#eab308", "#22c55e", "#06b6d4", "#3b82f6",
      "#8b5cf6", "#ec4899">>

\* the keys: Space, m, h and a key without a binding
Scene3Keys == {"Space", "m", "h", "x"}

\* the cells of the diagonals diag .. 8 in the order they are pushed
RECURSIVE cellsFromDiagonal(_)
cellsFromDiagonal(diag) ==
    IF diag > 8 THEN <<>>
    ELSE [k \in 1..(9 - diag) |->
             [row |-> diag + k - 1, col |-> diag,
              color |-> HIGHLIGHT_COLORS[diag]]]
         \o cellsFromDiagonal(diag + 1)

\* cellsToHighlight; the delays increase from cell to cell, so the timers
\* of one animation expire in the order of the sequence, the timer that
\* marks the animation complete after them
cellsToHighlight == cellsFromDiagonal(1)

\* setHighlights({ cells: new Map(), isAnimating: false })
clearHighlights(s) ==
    [s EXCEPT !.highlights = [cells |-> <<>>, isAnimating |-> FALSE]]

\* startHighlightAnimation, the gen-th of the behaviour: one timer for each
\* cell, their handles dropped, and the timer of the completion, its handle
\* kept in animationRef.current (Null: null)
startHighlightAnimation(s, gen) ==
    IF s.highlights.isAnimating THEN s
    ELSE LET done == [gen |-> gen, idx |-> Len(cellsToHighlight) + 1]
         IN  [s EXCEPT !.timers =
                           ((@ \ {s.animationRef})
                            \cup {[gen |-> gen, idx |-> k] :
                                      k \in 1..Len(cellsToHighlight)})
                           \cup {done},
                       !.highlights = [cells |-> <<>>, isAnimating |-> TRUE],
                       !.animationRef = done]

\* handleKeyDown of Scene3
scene3HandleKeyDown(s, key, gen) ==
    IF key = "Space"
    THEN LET cleared == IF Cardinality(DOMAIN s.highlights.cells) > 0
                        THEN clearHighlights(s) ELSE s
         IN  [cleared EXCEPT !.revealedCount =
                  IF @ < SCENE3_MAX_ITERATIONS + 1 THEN @ + 1 ELSE 0]
    ELSE IF key = "m"
    THEN [s EXCEPT !.showMatrix = ~@]
    ELSE IF key = "h"
    THEN IF s.showMatrix /\ s.revealedCount > SCENE3_MAX_ITERATIONS
         THEN startHighlightAnimation(s, gen)
         ELSE s
    ELSE s

\* the callback of a timer: a cell is added to the map, or the animation
\* is marked complete
scene3TimerCallback(s, tm) ==
    IF tm.idx <= Len(cellsToHighlight)
    THEN LET cell == cellsToHighlight[tm.idx]
         IN  [s EXCEPT !.highlights.cells =
                  (<<cell.row, cell.col>> :> cell.color) @@ @]
    ELSE [s EXCEPT !.highlights.isAnimating = FALSE]

\* Scene3 as mounted
Scene3Mounted ==
    [revealedCount |-> 0, showMatrix |-> FALSE,
     highlights |-> [cells |-> <<>>, isAnimating |-> FALSE],
     animationRef |-> Null, timers |-> {}, events |-> 0,
     lastKind |-> "none", cleared |-> FALSE]

\* a keydown event on the window; cleared records that Space has emptied
\* the map and h was not pressed since
Scene3KeyDown(key) ==
    /\ scene3.events < MaxScene3Events
    /\ scene3' =
           [scene3HandleKeyDown(scene3, key, scene3.events + 1)
                EXCEPT !.events = @ + 1,
                       !.lastKind = key,
                       !.cleared =
                           IF key = "h" THEN FALSE
                           ELSE IF /\ key = "Space"
                                   /\ Cardinality(DOMAIN scene3.highlights.cells) > 0
                           THEN TRUE
                           ELSE @]
    /\ UNCHANGED <<sceneVars, canvasVars, workerVars, message, data, call,
                   returned, variantCanvas, scene2, scene6, scene5,
                   histVars>>

\* the pending timer of an animation that is due first expires
Scene3TimerFires ==
    /\ \E tm \in scene3.timers :
           /\ \A other \in scene3.timers :
                  other.gen = tm.gen => other.idx >= tm.idx
           /\ scene3' = [scene3TimerCallback(
                             [scene3 EXCEPT !.timers = @ \ {tm}], tm)
                             EXCEPT !.lastKind = "timer"]
    /\ UNCHANGED <<sceneVars, canvasVars, workerVars, message, data, call,
                   returned, variantCanvas, scene2, scene6, scene5,
                   histVars>>

InitScene3 ==
    /\ Constructed
    /\ message = Null
    /\ data = Null
    /\ call = Null
    /\ returned = Null
    /\ variantCanvas = Null
    /\ scene2 = Null
    /\ scene6 = Null
    /\ scene5 = Null
    /\ scene3 = Scene3Mounted
    /\ eventBudget = 0

NextScene3 ==
    \/ \E key \in Scene3Keys : Scene3KeyDown(key)
    \/ Scene3TimerFires

SpecScene3 == InitScene3 /\ [][NextScene3]_vars

\* C33: once Space has cleared the highlights, the map of the highlighted
\* cells is empty until h is pressed again: no timer of an earlier
\* animation adds a cell after the clear.
C33_ClearedStaysEmpty ==
    scene3.cleared => Cardinality(DOMAIN scene3.highlights.cells) = 0

\* Space has cleared the highlights in the middle of an animation, h was
\* not pressed since, and a timer of that animation has added a cell
C33_CellAddedAfterClear ==
    /\ scene3.cleared
    /\ scene3.lastKind = "timer"
    /\ ~scene3.highlights.isAnimating
    /\ Cardinality(DOMAIN scene3.highlights.cells) = 1

=============================================================================
